---------------------------- MODULE Spec2Model ----------------------------
(* A state-machine model of roboticstoolbox/robot/ERobot.py:               *)
(*   - BaseERobot.__init__ : the link tree builder                         *)
(*   - BaseERobot.dfs_links, _get_limit_links, _getlink                    *)
(*   - ERobot.get_path and its two path caches                             *)
(* Link objects live in a heap (pool) that outlives a constructor call;    *)
(* the constructor mutates them (name, _parent, _children, jindex).        *)
EXTENDS Integers, Sequences, FiniteSets, TLC

VARIABLES
    pool,       \* the ELink objects: id -> [name, parent, isjoint, jindex, children]
    robot,      \* the ERobot object built by the last constructor call
    cache,      \* ERobot._path_cache      : start name -> end name -> entry
    cache_fknm, \* ERobot._path_cache_fknm : start name -> end name -> entry
    cache_end,  \* ERobot._cache_end, _cache_end_tool, _cache_start
    ret,        \* what the last call returned or raised
    calls,      \* get_path calls made on the robot so far
    mode,       \* which family of inputs this behaviour explores
    thr,        \* the callers running get_path concurrently: their locals
    J0          \* the Jacobian handed to hessian0

vars == <<pool, robot, cache, cache_fknm, cache_end, ret, calls, mode, thr, J0>>

-----------------------------------------------------------------------------
(* Bounds of the model.                                                    *)

\* number of link objects in the tree-shape family
MaxLinks == 4
\* number of link objects in the joint-index and naming families
MaxIdxLinks == 3
\* gripper_links holds at most this many links
MaxGrippers == 2
\* links without a joint among the links of one family
MaxFixed == 1
\* get_path calls made on one robot
MaxCalls == 2

-----------------------------------------------------------------------------
(* Python values.                                                          *)

\* link.name is None
NoName == "<None>"
\* link.jindex is None
NoIdx == -1
\* a link reference that is None (base_link, a gripper root's parent)
NoLink == 0

\* no concurrent caller, no Jacobian
NoThreads == <<>>
NoJacobian == <<>>

\* link.parent as handed to ELink(): None, a name, or a link reference
NoneP == [kind |-> "none", name |-> "", id |-> NoLink]
StrP(s) == [kind |-> "str", name |-> s, id |-> NoLink]
RefP(i) == [kind |-> "ref", name |-> "", id |-> i]

Range(s) == {s[i] : i \in 1..Len(s)}

\* list.remove(x): drops the first occurrence
RECURSIVE ListRemove(_, _)
ListRemove(s, x) ==
    IF s = <<>> THEN <<>>
    ELSE IF Head(s) = x THEN Tail(s)
    ELSE <<Head(s)>> \o ListRemove(Tail(s), x)

\* [x for x in s if x in keep]
RECURSIVE Filter(_, _)
Filter(s, keep) ==
    IF s = <<>> THEN <<>>
    ELSE IF Head(s) \in keep THEN <<Head(s)>> \o Filter(Tail(s), keep)
    ELSE Filter(Tail(s), keep)

EmptyDict == [x \in {} |-> NoLink]

\* tool transforms: None, SE3() and the tool of the robot's k-th gripper
NoTool == [t |-> "None", g |-> 0]
Eye == [t |-> "SE3()", g |-> 0]
GripperTool(k) == [t |-> "gripper.tool", g |-> k]
\* tool.A, the matrix of a transform
MatrixOf(tool) == [A |-> tool]
\* link._fknm, the handle of a link's native structure
Fknm(l) == [fknm |-> l]

\* the end argument may also be one of the robot's Gripper objects
GripP(k) == [kind |-> "grip", name |-> "", id |-> k]

\* f"link-{link_number}"
GenName(k) == "link-" \o ToString(k)

-----------------------------------------------------------------------------
(* BaseERobot.dfs_links: depth-first, pre-order, over the children lists.  *)

RECURSIVE vis_children(_, _, _)
RECURSIVE vis_kids(_, _, _, _)
vis_children(p, link, visited) ==
    vis_kids(p, p[link].children, 1, Append(visited, link))

vis_kids(p, kids, k, visited) ==
    IF k > Len(kids) THEN visited
    ELSE vis_kids(p, kids, k + 1,
                  IF kids[k] \in Range(visited) THEN visited
                  ELSE vis_children(p, kids[k], visited))

dfs_links(p, start) == vis_children(p, start, <<>>)

-----------------------------------------------------------------------------
(* BaseERobot.__init__, stage by stage.  A context carries the constructor *)
(* locals; err # "" once an exception has been raised, and every later     *)
(* stage then leaves the context alone.                                    *)

Ctx0(p, links, gl, chk) ==
    [pool |-> p, links |-> links, gl |-> gl, chk |-> chk,
     dict |-> EmptyDict, n |-> 0, base |-> NoLink,
     grippers |-> <<>>, ee |-> <<>>, orlinks |-> <<>>,
     nbranches |-> 0, qlim |-> <<>>, err |-> ""]

\* a scan that takes every name as new
InLinkdict_Never(d, nm) == FALSE

\* line 136: link.name in self._linkdict
InLinkdict(d, nm) == nm \in DOMAIN d

\* lines 127-142: name the unnamed links, fill _linkdict, count the joints
RECURSIVE NameScan(_, _, _)
NameScan(c, i, num) ==
    IF i > Len(c.links) THEN c
    ELSE
        LET l == c.links[i]
            unnamed == c.pool[l].name = NoName
            nm == IF unnamed THEN GenName(num) ELSE c.pool[l].name
            p1 == [c.pool EXCEPT ![l].name = nm]
        IN  IF InLinkdict(c.dict, nm)
            THEN [c EXCEPT !.pool = p1, !.err = "NameConflict"]
            ELSE NameScan([c EXCEPT !.pool = p1,
                                    !.dict = (nm :> l) @@ c.dict,
                                    !.n = c.n + (IF c.pool[l].isjoint THEN 1 ELSE 0)],
                          i + 1,
                          IF unnamed THEN num + 1 ELSE num)

\* lines 146-148: parents given by name become references
RECURSIVE ResolveParents(_, _)
ResolveParents(c, i) ==
    IF c.err # "" \/ i > Len(c.links) THEN c
    ELSE
        LET l == c.links[i]
            par == c.pool[l].parent
        IN  IF par.kind = "str"
            THEN IF par.name \in DOMAIN c.dict
                 THEN ResolveParents(
                        [c EXCEPT !.pool[l].parent = RefP(c.dict[par.name])], i + 1)
                 ELSE [c EXCEPT !.err = "KeyError"]
            ELSE ResolveParents(c, i + 1)

\* a constructor that never chains the links
Sequential_Skip(c) == c

\* lines 150-153: no parent given anywhere, chain the links in list order
Sequential(c) ==
    IF c.err # "" THEN c
    ELSE IF \A i \in 1..Len(c.links) : c.pool[c.links[i]].parent.kind = "none"
    THEN [c EXCEPT !.pool =
            [l \in DOMAIN c.pool |->
                IF \E i \in 2..Len(c.links) : c.links[i] = l
                THEN [c.pool[l] EXCEPT !.parent =
                        RefP(c.links[(CHOOSE i \in 2..Len(c.links) : c.links[i] = l) - 1])]
                ELSE c.pool[l]]]
    ELSE c

\* lines 158-166: find the base, append every other link to its parent's children
RECURSIVE BaseScan(_, _)
BaseScan(c, i) ==
    IF c.err # "" \/ i > Len(c.links) THEN c
    ELSE
        LET l == c.links[i]
            par == c.pool[l].parent
        IN  IF par.kind = "none"
            THEN IF c.base # NoLink
                 THEN [c EXCEPT !.err = "MultipleBase"]
                 ELSE BaseScan([c EXCEPT !.base = l], i + 1)
            ELSE BaseScan(
                   [c EXCEPT !.pool[par.id].children = Append(@, l)], i + 1)


\* Gripper.n: the joint links among a gripper's links
GripperN(p, g_links) == Cardinality({l \in Range(g_links) : p[l].isjoint})

\* a removal that takes the gripper root only
RemoveAll_RootOnly(c, g_links) ==
    IF c.err # "" \/ g_links = <<>> THEN c
    ELSE IF Head(g_links) \notin Range(c.links)
    THEN [c EXCEPT !.err = "RemoveValueError"]
    ELSE [c EXCEPT !.links = ListRemove(@, Head(g_links))]

\* lines 184-185: links.remove(g_link) for every link of the gripper sub-tree
RECURSIVE RemoveAll(_, _)
RemoveAll(c, g_links) ==
    IF c.err # "" \/ g_links = <<>> THEN c
    ELSE IF Head(g_links) \notin Range(c.links)
    THEN [c EXCEPT !.err = "RemoveValueError"]
    ELSE RemoveAll([c EXCEPT !.links = ListRemove(@, Head(g_links))], Tail(g_links))

\* lines 180-188: one Gripper per gripper root, its sub-tree leaves the main list
RECURSIVE MakeGrippers(_, _)
MakeGrippers(c, i) ==
    IF c.err # "" \/ i > Len(c.gl) THEN c
    ELSE
        LET g_links == dfs_links(c.pool, c.gl[i])
            c1 == RemoveAll(c, g_links)
        IN  IF c1.err # "" THEN c1
            ELSE MakeGrippers([c1 EXCEPT !.grippers = Append(@, g_links)], i + 1)

RECURSIVE SumGripperN(_, _)
SumGripperN(p, gs) ==
    IF gs = <<>> THEN 0 ELSE GripperN(p, Head(gs)) + SumGripperN(p, Tail(gs))

\* lines 191-192: self._n -= gripper.n
SubtractGripperN(c) ==
    IF c.err # "" THEN c
    ELSE [c EXCEPT !.n = c.n - SumGripperN(c.pool, c.grippers)]

\* [link for link in links if len(link.children) == 0]
RECURSIVE Childless(_, _)
Childless(p, links) ==
    IF links = <<>> THEN <<>>
    ELSE IF Len(p[Head(links)].children) = 0
    THEN <<Head(links)>> \o Childless(p, Tail(links))
    ELSE Childless(p, Tail(links))

\* end-effectors taken from the childless links whether or not there are grippers
SetEE_Childless(c) ==
    IF c.err # "" THEN c
    ELSE [c EXCEPT !.ee = Childless(c.pool, c.links)]

\* lines 195-205: the end-effector links
SetEE(c) ==
    IF c.err # "" THEN c
    ELSE IF Len(c.gl) = 0
    THEN [c EXCEPT !.ee = Childless(c.pool, c.links)]
    ELSE [c EXCEPT !.ee = [i \in 1..Len(c.gl) |-> c.pool[c.gl[i]].parent.id]]

\* lines 212-219, applied along the visiting order: a joint link that is still in
\* the main list takes the next index
RECURSIVE visit_link(_, _, _, _)
visit_link(p, visited, keep, jindex) ==
    IF visited = <<>> THEN p
    ELSE
        LET l == Head(visited)
        IN  IF p[l].isjoint /\ l \in keep
            THEN visit_link([p EXCEPT ![l].jindex = jindex], Tail(visited), keep, jindex + 1)
            ELSE visit_link(p, Tail(visited), keep, jindex)

\* lines 228-236: the explicit indices are checked against {0..n-1}
RECURSIVE CheckJindex(_, _, _, _)
CheckJindex(p, links, jset, i) ==
    IF i > Len(links) THEN (IF jset # {} THEN "JindexNotAssigned" ELSE "")
    ELSE
        LET l == links[i]
        IN  IF p[l].isjoint /\ p[l].jindex \notin jset
            THEN "JindexRepeatedOrOutOfRange"
            ELSE CheckJindex(p, links, jset \ {p[l].jindex}, i + 1)

\* a mixture taken as if every index had been given
RaiseMixture_Accept(c) == [c EXCEPT !.orlinks = c.links]

\* lines 238-241: some joint links have an index, others have none
RaiseMixture(c) == [c EXCEPT !.err = "JindexMixture"]

\* lines 208-241: assign or validate the joint indices
AssignJindex(c) ==
    IF c.err # "" THEN c
    ELSE IF \A i \in 1..Len(c.links) : c.pool[c.links[i]].jindex = NoIdx
    THEN IF c.base = NoLink
         THEN [c EXCEPT !.err = "AttributeError"]
         ELSE LET visited == dfs_links(c.pool, c.base)
              IN  [c EXCEPT !.pool = visit_link(c.pool, visited, Range(c.links), 0),
                            !.orlinks = Filter(visited, Range(c.links))]
    ELSE IF \A i \in 1..Len(c.links) :
                c.pool[c.links[i]].isjoint => c.pool[c.links[i]].jindex # NoIdx
    THEN LET e == IF c.chk
                  THEN CheckJindex(c.pool, c.links, 0..(c.n - 1), 1)
                  ELSE ""
         IN  IF e # "" THEN [c EXCEPT !.err = e]
             ELSE [c EXCEPT !.orlinks = c.links]
    ELSE RaiseMixture(c)

\* line 243: sum([link.nchildren == 0 for link in links])
SetNBranches(c) ==
    IF c.err # "" THEN c
    ELSE [c EXCEPT !.nbranches = Len(Childless(c.pool, c.links))]

\* [link for link in orlinks if link.isjoint]
RECURSIVE JointsOf(_, _)
JointsOf(p, links) ==
    IF links = <<>> THEN <<>>
    ELSE IF p[Head(links)].isjoint
    THEN <<Head(links)>> \o JointsOf(p, Tail(links))
    ELSE JointsOf(p, Tail(links))

\* lines 253-260: column j of qlim takes the limits of the j-th joint link of
\* orlinks (recorded here as that link); the other columns stay zero (NoLink)
SetQlim(c) ==
    IF c.err # "" THEN c
    ELSE LET js == JointsOf(c.pool, c.orlinks)
         IN  IF Len(js) > c.n THEN [c EXCEPT !.err = "IndexError"]
             ELSE [c EXCEPT !.qlim =
                     [k \in 1..c.n |-> IF k <= Len(js) THEN js[k] ELSE NoLink]]

\* BaseERobot.__init__(links, gripper_links=gl, checkjindex=chk)
Build(p, links, gl, chk) ==
    SetQlim(SetNBranches(AssignJindex(SetEE(SubtractGripperN(
        MakeGrippers(BaseScan(Sequential(ResolveParents(
            NameScan(Ctx0(p, links, gl, chk), 1, 0), 1)), 1), 1))))))

-----------------------------------------------------------------------------
(* The state machine.                                                      *)

\* ERobot._reset_cache, lines 936-938
NoLimits == [end |-> NoLink, tool |-> NoTool, start |-> NoLink]

NoRobot ==
    [status |-> "none", err |-> "", links |-> <<>>, orlinks |-> <<>>,
     gl |-> <<>>, dict |-> EmptyDict, n |-> 0, base |-> NoLink,
     grippers |-> <<>>, ee |-> <<>>, nbranches |-> 0, qlim |-> <<>>]

\* the object a finished constructor call leaves behind; a call that raised
\* leaves only its exception (and the mutated link objects)
RobotOf(c) ==
    IF c.err # "" THEN [NoRobot EXCEPT !.status = "error", !.err = c.err]
    ELSE [status |-> "ok", err |-> "", links |-> c.links, orlinks |-> c.orlinks,
          gl |-> c.gl, dict |-> c.dict, n |-> c.n, base |-> c.base,
          grippers |-> c.grippers, ee |-> c.ee, nbranches |-> c.nbranches,
          qlim |-> c.qlim]

\* ELink(...): a fresh link object
ELink(name, parent, isjoint, jindex) ==
    [name |-> name, parent |-> parent, isjoint |-> isjoint, jindex |-> jindex,
     children |-> <<>>]

UserNames == <<"a", "b", "c", "d", "e">>

\* isjoint of N links, at most MaxFixed of them without a joint
JointPatterns(N) ==
    {jt \in [1..N -> BOOLEAN] : Cardinality({i \in 1..N : ~jt[i]}) <= MaxFixed}

\* tree shapes: named links, no joint index given, parents given by reference:
\* any earlier link or the next one, so chains, branches, forests, cycles,
\* detached parts and children listed before their parent all occur
ShapePools ==
    LET N == MaxLinks
        Par(i) == {NoneP} \cup {RefP(j) : j \in {k \in 1..N : k < i \/ k = i + 1}}
    IN  { [i \in 1..N |-> ELink(UserNames[i], par[i], jt[i], NoIdx)] :
            par \in {f \in [1..N -> {NoneP} \cup {RefP(j) : j \in 1..N}] :
                        \A i \in 1..N : f[i] \in Par(i)},
            jt \in JointPatterns(N) }

\* joint indices given by the caller, on joint and on non-joint links; the
\* links form a chain, a chain closed into a cycle, or have two parentless links
IndexPools ==
    LET N == MaxIdxLinks
        Pred(i) == IF i = 1 THEN N ELSE i - 1
    IN  { [i \in 1..N |-> ELink(UserNames[i],
                                IF i > 2 \/ up[i] THEN RefP(Pred(i)) ELSE NoneP,
                                jt[i], jx[i])] :
            up \in [1..2 -> BOOLEAN],
            jt \in JointPatterns(N),
            jx \in [1..N -> {NoIdx} \cup (0..(N - 1))] }

\* names: unnamed links, user names that look like generated ones, parents
\* given by name (known or unknown)
NamePools ==
    LET N == MaxIdxLinks
    IN  { [i \in 1..N |-> ELink(nm[i], par[i], i # 2, NoIdx)] :
            nm \in [1..N -> {NoName, "a", GenName(0)}],
            par \in [1..N -> {NoneP, StrP("a"), StrP(GenName(1))}] }

\* the lists a caller passes: the link objects in creation order, all of them
\* or (not in the path family) all but the last
Lists(m, p) ==
    LET N == Len(p)
    IN  {[i \in 1..N |-> i]} \cup (IF m = "path" THEN {} ELSE {[i \in 1..(N - 1) |-> i]})

\* gripper_links: no link, or links of the list (in list order): up to
\* MaxGrippers of them for a full list of the tree-shape family, else at most one
GripperLists(m, p, links) ==
    LET most == IF m \in {"shape", "path"} /\ Len(links) = Len(p) THEN MaxGrippers ELSE 1
    IN  {g \in UNION {[1..k -> Range(links)] : k \in 0..most} :
            \A i, j \in 1..Len(g) : i < j => g[i] < g[j]}

\* checkjindex: left at its default, or switched off (tried where indices are
\* given: on the full list without grippers)
CheckFlags(m, p, links, gl) ==
    IF m = "index" /\ Len(links) = Len(p) /\ gl = <<>> THEN BOOLEAN ELSE {TRUE}

InitBuild ==
    /\ mode \in {"shape", "index", "name"}
    /\ pool \in CASE mode = "shape" -> ShapePools
                  [] mode = "index" -> IndexPools
                  [] mode = "name" -> NamePools
    /\ robot = NoRobot
    /\ cache = EmptyDict
    /\ cache_fknm = EmptyDict
    /\ cache_end = NoLimits
    /\ calls = 0
    /\ ret = [op |-> "none", links |-> <<>>, gl |-> <<>>, chk |-> TRUE, pre |-> pool]
    /\ thr = NoThreads
    /\ J0 = NoJacobian

\* robot = ERobot(links, gripper_links=gl, checkjindex=chk)
Construct ==
    /\ robot.status = "none"
    /\ \E links \in Lists(mode, pool) :
       \E gl \in GripperLists(mode, pool, links) :
       \E chk \in CheckFlags(mode, pool, links, gl) :
          LET c == Build(pool, links, gl, chk)
          IN  /\ pool' = c.pool
              /\ robot' = RobotOf(c)
              /\ ret' = [op |-> "init", links |-> links, gl |-> gl, chk |-> chk,
                          pre |-> pool]
    /\ cache' = EmptyDict
    /\ cache_fknm' = EmptyDict
    /\ cache_end' = NoLimits
    /\ UNCHANGED <<calls, mode, thr, J0>>

NextBuild == Construct

SpecBuild == InitBuild /\ [][NextBuild]_vars

-----------------------------------------------------------------------------
(* Path resolution: _getlink, _get_limit_links, get_path.                  *)

Ok(v) == [err |-> "", val |-> v]
Raise(e) == [err |-> e, val |-> NoLink]

\* BaseERobot._getlink(link, default), lines 813-832
\* self.links is the list handed to Robot.__init__ on line 267
getlink(r, link, default) ==
    LET a == IF link.kind = "none" THEN default ELSE link
    IN  IF a.kind = "str"
        THEN IF a.name \in DOMAIN r.dict THEN Ok(r.dict[a.name])
             ELSE Raise("ValueError: no link named")
        ELSE IF a.kind = "ref"
        THEN IF a.id \in Range(r.orlinks)
                \/ \E k \in 1..Len(r.grippers) : a.id \in Range(r.grippers[k])
             THEN Ok(a.id)
             ELSE Raise("ValueError: link not in robot links")
        ELSE Raise("TypeError: unknown argument")

\* a default that takes the first gripper or end-effector there is
DefaultEnd_First(r) ==
    IF Len(r.grippers) >= 1
    THEN [err |-> "", val |-> r.grippers[1][1], tool |-> GripperTool(1)]
    ELSE IF Len(r.ee) >= 1
    THEN [err |-> "", val |-> r.ee[1], tool |-> NoTool]
    ELSE [err |-> "ValueError: Must specify which end-effector",
          val |-> NoLink, tool |-> NoTool]

\* lines 756-771: the end link and tool used when end is None
DefaultEnd(r) ==
    IF Len(r.grippers) = 1
    THEN [err |-> "", val |-> r.grippers[1][1], tool |-> GripperTool(1)]
    ELSE IF Len(r.grippers) > 1
    THEN [err |-> "ValueError: Must specify which gripper",
          val |-> NoLink, tool |-> NoTool]
    ELSE IF Len(r.ee) = 1
    THEN [err |-> "", val |-> r.ee[1], tool |-> NoTool]
    ELSE [err |-> "ValueError: Must specify which end-effector",
          val |-> NoLink, tool |-> NoTool]

\* BaseERobot._get_limit_links(end, start), lines 755-795:
\* [err, end, start, tool, lim], lim the new value of the _cache_* fields
get_limit_links(r, lim, end, start) ==
    LET e == IF end.kind = "none"
             THEN DefaultEnd(r)
             ELSE IF end.kind = "grip"
                  THEN IF end.id \in 1..Len(r.grippers)
                       THEN [err |-> "", val |-> r.grippers[end.id][1],
                             tool |-> GripperTool(end.id)]
                       ELSE [err |-> "TypeError: unknown argument",
                             val |-> NoLink, tool |-> NoTool]
                  ELSE LET g == getlink(r, end, NoneP)
                       IN  [err |-> g.err, val |-> g.val, tool |-> NoTool]
        lim1 == IF e.err = "" /\ end.kind = "none"
                THEN [lim EXCEPT !.end = e.val, !.tool = e.tool]
                ELSE lim
        s == IF start.kind = "none" THEN Ok(r.base) ELSE getlink(r, start, NoneP)
        lim2 == IF start.kind = "none" THEN [lim1 EXCEPT !.start = r.base] ELSE lim1
    IN  IF e.err # ""
        THEN [err |-> e.err, end |-> NoLink, start |-> NoLink, tool |-> NoTool, lim |-> lim]
        ELSE IF s.err # ""
        THEN [err |-> s.err, end |-> NoLink, start |-> NoLink, tool |-> NoTool, lim |-> lim1]
        ELSE [err |-> "", end |-> e.val, start |-> s.val, tool |-> e.tool, lim |-> lim2]

\* lines 1298-1306: climb from link to start along the parent references,
\* appending every link reached; a climb that comes back to a link it has left
\* never ends
RECURSIVE walk(_, _, _, _, _, _)
walk(p, link, start, path, n, seen) ==
    IF link = start THEN [status |-> "ok", err |-> "", path |-> path, n |-> n]
    ELSE IF p[link].parent.kind = "none"
    THEN [status |-> "error", err |-> "ValueError: cannot find path",
          path |-> <<>>, n |-> 0]
    ELSE IF p[link].parent.kind = "str"
    THEN [status |-> "error", err |-> "AttributeError", path |-> <<>>, n |-> 0]
    ELSE LET up == p[link].parent.id
         IN  IF up \in seen /\ up # start
             THEN [status |-> "hang", err |-> "", path |-> <<>>, n |-> 0]
             ELSE walk(p, up, start, Append(path, up),
                       n + (IF p[up].isjoint THEN 1 ELSE 0), seen \cup {up})

\* a path left in the order the climb found it
Reverse_Keep(s) == s

\* list.reverse()
Reverse(s) == [i \in 1..Len(s) |-> s[Len(s) + 1 - i]]

\* a lookup that never finds anything
Lookup2_Miss(d, a, b) == Raise("KeyError")

\* dict[a][b], or a KeyError
Lookup2(d, a, b) ==
    IF a \in DOMAIN d /\ b \in DOMAIN d[a] THEN Ok(d[a][b]) ELSE Raise("KeyError")

\* dict[a][b] = v, dict[a] being there
Store2(d, a, b, v) == [d EXCEPT ![a] = (b :> v) @@ d[a]]

NoResult == [path |-> <<>>, n |-> 0, tool |-> NoTool]

\* what a get_path call leaves: its outcome, the links it resolved, the caches
PathOut(ll, status, err, hit, val, c1, cf1) ==
    [status |-> status, err |-> err, hit |-> hit, val |-> val,
     end |-> ll.end, start |-> ll.start,
     cache |-> c1, cache_fknm |-> cf1, lim |-> ll.lim]

\* lines 1279-1320, once end and start are resolved to links
resolve(p, c, cf, ll, fknm) ==
    LET sn == p[ll.start].name
        en == p[ll.end].name
        got == IF fknm THEN Lookup2(cf, sn, en) ELSE Lookup2(c, sn, en)
        c1 == IF sn \in DOMAIN c THEN c ELSE (sn :> EmptyDict) @@ c
        cf1 == IF sn \in DOMAIN c THEN cf ELSE (sn :> EmptyDict) @@ cf
        w == walk(p, ll.end, ll.start, <<ll.end>>,
                  IF p[ll.end].isjoint THEN 1 ELSE 0, {ll.end})
        path == Reverse(w.path)
        path_fknm == [i \in 1..Len(path) |-> Fknm(path[i])]
        tool == IF ll.tool = NoTool THEN Eye ELSE ll.tool
        entry == [path |-> path, n |-> w.n, tool |-> tool]
        entry_fknm == [path |-> path_fknm, n |-> w.n, tool |-> MatrixOf(tool)]
    IN  IF got.err = "" THEN PathOut(ll, "ok", "", TRUE, got.val, c, cf)
        ELSE IF w.status # "ok"
        THEN PathOut(ll, w.status, w.err, FALSE, NoResult, c1, cf1)
        ELSE IF sn \notin DOMAIN cf1
        THEN PathOut(ll, "error", "KeyError", FALSE, NoResult,
                     Store2(c1, sn, en, entry), cf1)
        ELSE PathOut(ll, "ok", "", FALSE, IF fknm THEN entry_fknm ELSE entry,
                     Store2(c1, sn, en, entry), Store2(cf1, sn, en, entry_fknm))

\* ERobot.get_path(end, start, _fknm), lines 1274-1320: the value returned or
\* the exception raised, and the caches and _cache_* fields it leaves
get_path(p, r, c, cf, lim, end, start, fknm) ==
    LET ll == get_limit_links(r, lim, end, start)
    IN  IF ll.err # "" THEN PathOut(ll, "error", ll.err, FALSE, NoResult, c, cf)
        ELSE IF ll.start = NoLink
        THEN PathOut(ll, "error", "AttributeError", FALSE, NoResult, c, cf)
        ELSE resolve(p, c, cf, ll, fknm)

\* the robots whose paths are resolved: a serial chain, a branched tree, a
\* base with a detached pair of links that name each other as parent, a
\* ring of links with given joint indices (no parentless link), and a serial
\* chain with given joint indices that do not follow the chain
PathPools ==
    { <<ELink("a", NoneP, TRUE, NoIdx), ELink("b", RefP(1), TRUE, NoIdx),
        ELink("c", RefP(2), FALSE, NoIdx), ELink("d", RefP(3), TRUE, NoIdx)>>,
      <<ELink("a", NoneP, FALSE, NoIdx), ELink("b", RefP(1), TRUE, NoIdx),
        ELink("c", RefP(2), TRUE, NoIdx), ELink("d", RefP(1), TRUE, NoIdx)>>,
      <<ELink("a", NoneP, TRUE, NoIdx), ELink("b", RefP(1), TRUE, NoIdx),
        ELink("c", RefP(4), TRUE, NoIdx), ELink("d", RefP(3), FALSE, NoIdx)>>,
      <<ELink("a", RefP(4), TRUE, 0), ELink("b", RefP(1), TRUE, 1),
        ELink("c", RefP(2), TRUE, 2), ELink("d", RefP(3), FALSE, NoIdx)>>,
      <<ELink("a", NoneP, TRUE, 2), ELink("b", RefP(1), TRUE, 0),
        ELink("c", RefP(2), FALSE, NoIdx), ELink("d", RefP(3), TRUE, 1)>> }

InitPath ==
    /\ mode = "path"
    /\ pool \in PathPools
    /\ robot = NoRobot
    /\ cache = EmptyDict
    /\ cache_fknm = EmptyDict
    /\ cache_end = NoLimits
    /\ calls = 0
    /\ ret = [op |-> "none", links |-> <<>>, gl |-> <<>>, chk |-> TRUE, pre |-> pool]
    /\ thr = NoThreads
    /\ J0 = NoJacobian

\* the end and start arguments tried: nothing, a link object, one of the
\* robot's grippers, the name of the last link
EndArgs ==
    {NoneP} \cup {RefP(l) : l \in DOMAIN pool}
            \cup {GripP(k) : k \in 1..Len(robot.grippers)}
            \cup {StrP(pool[Len(pool)].name)}

\* start: nothing, or one of the first two links of the pool
StartArgs == {NoneP} \cup {RefP(l) : l \in {1, 2}}

\* robot.get_path(end, start, _fknm); a call that never returns ends the run
GetPath ==
    /\ robot.status = "ok"
    /\ calls < MaxCalls
    /\ ~(ret.op = "get_path" /\ ret.status = "hang")
    /\ \E end \in EndArgs, start \in StartArgs, fknm \in BOOLEAN :
          LET g == get_path(pool, robot, cache, cache_fknm, cache_end, end, start, fknm)
          IN  /\ cache' = g.cache
              /\ cache_fknm' = g.cache_fknm
              /\ cache_end' = g.lim
              /\ ret' = [op |-> "get_path", status |-> g.status, err |-> g.err,
                         hit |-> g.hit, val |-> g.val,
                         end |-> g.end, start |-> g.start,
                         arg_end |-> end, arg_start |-> start, fknm |-> fknm]
    /\ calls' = calls + 1
    /\ UNCHANGED <<pool, robot, mode, thr, J0>>

NextPath == Construct \/ GetPath

SpecPath == InitPath /\ [][NextPath]_vars

-----------------------------------------------------------------------------
(* Construction repeated on the same link objects: every call of the       *)
(* constructor works on the links as the calls before it left them.        *)

MaxBuilds == 2

\* ERobot(links, gripper_links=gl, checkjindex=chk) once more, after a call
\* that failed or that returned a robot
Reconstruct ==
    /\ robot.status # "none"
    /\ calls < MaxBuilds
    /\ \E links \in Lists(mode, pool) :
       \E gl \in GripperLists(mode, pool, links) :
       \E chk \in CheckFlags(mode, pool, links, gl) :
       \E c \in {Build(pool, links, gl, chk)} :
          /\ pool' = c.pool
          /\ robot' = RobotOf(c)
          /\ ret' = [op |-> "init", links |-> links, gl |-> gl, chk |-> chk,
                      pre |-> pool]
    /\ cache' = EmptyDict
    /\ cache_fknm' = EmptyDict
    /\ cache_end' = NoLimits
    /\ calls' = calls + 1
    /\ UNCHANGED <<mode, thr, J0>>

NextRebuild == Construct \/ Reconstruct

SpecRebuild == InitPath /\ [][NextRebuild]_vars

-----------------------------------------------------------------------------
(* Two callers inside get_path at once.  Each statement of get_path that   *)
(* reads or writes a cache is one step; the steps of the two callers       *)
(* interleave freely, as the interpreter may switch threads between any    *)
(* two statements.                                                         *)

Callers == {1, 2}

\* a serial chain and a branched tree
RacePools ==
    { <<ELink("a", NoneP, TRUE, NoIdx), ELink("b", RefP(1), TRUE, NoIdx),
        ELink("c", RefP(2), FALSE, NoIdx), ELink("d", RefP(3), TRUE, NoIdx)>>,
      <<ELink("a", NoneP, FALSE, NoIdx), ELink("b", RefP(1), TRUE, NoIdx),
        ELink("c", RefP(2), TRUE, NoIdx), ELink("d", RefP(1), TRUE, NoIdx)>> }

\* a caller that is not inside get_path
Idle ==
    [pc |-> "idle", end |-> NoLink, start |-> NoLink, tool |-> NoTool,
     fknm |-> FALSE, path |-> <<>>, n |-> 0,
     status |-> "", err |-> "", hit |-> FALSE, val |-> NoResult]

InitRace ==
    /\ mode = "path"
    /\ pool \in RacePools
    /\ robot = NoRobot
    /\ cache = EmptyDict
    /\ cache_fknm = EmptyDict
    /\ cache_end = NoLimits
    /\ calls = 0
    /\ ret = [op |-> "none", links |-> <<>>, gl |-> <<>>, chk |-> TRUE, pre |-> pool]
    /\ thr = [t \in Callers |-> Idle]
    /\ J0 = NoJacobian

\* the ends asked for: the last two links of the pool, by reference
RaceEnds == {RefP(l) : l \in {Len(pool) - 1, Len(pool)}}

\* line 1277: caller t enters get_path(end, None, _fknm)
Call(t) ==
    /\ robot.status = "ok"
    /\ thr[t].pc = "idle"
    /\ \E end \in RaceEnds, fknm \in BOOLEAN :
          LET ll == get_limit_links(robot, cache_end, end, NoneP)
          IN  /\ ll.err = "" /\ ll.start # NoLink
              /\ cache_end' = ll.lim
              /\ thr' = [thr EXCEPT ![t] =
                          [Idle EXCEPT !.pc = "lookup", !.end = ll.end,
                                       !.start = ll.start, !.tool = ll.tool,
                                       !.fknm = fknm]]
    /\ UNCHANGED <<pool, robot, cache, cache_fknm, ret, calls, mode, J0>>

\* lines 1280-1286: the cache lookup
LookupStep(t) ==
    /\ thr[t].pc = "lookup"
    /\ LET got == Lookup2(IF thr[t].fknm THEN cache_fknm ELSE cache,
                          pool[thr[t].start].name, pool[thr[t].end].name)
       IN  thr' = [thr EXCEPT ![t] =
                    IF got.err = ""
                    THEN [@ EXCEPT !.pc = "done", !.status = "ok",
                                   !.hit = TRUE, !.val = got.val]
                    ELSE [@ EXCEPT !.pc = "check"]]
    /\ UNCHANGED <<pool, robot, cache, cache_fknm, cache_end, ret, calls, mode, J0>>

\* line 1288: if start.name not in self._path_cache
CheckStep(t) ==
    /\ thr[t].pc = "check"
    /\ thr' = [thr EXCEPT ![t].pc =
                 IF pool[thr[t].start].name \in DOMAIN cache THEN "walk" ELSE "init"]
    /\ UNCHANGED <<pool, robot, cache, cache_fknm, cache_end, ret, calls, mode, J0>>

\* line 1289: self._path_cache[start.name] = {}
InitCacheStep(t) ==
    /\ thr[t].pc = "init"
    /\ cache' = (pool[thr[t].start].name :> EmptyDict) @@ cache
    /\ thr' = [thr EXCEPT ![t].pc = "init_fknm"]
    /\ UNCHANGED <<pool, robot, cache_fknm, cache_end, ret, calls, mode, J0>>

\* line 1290: self._path_cache_fknm[start.name] = {}
InitFknmStep(t) ==
    /\ thr[t].pc = "init_fknm"
    /\ cache_fknm' = (pool[thr[t].start].name :> EmptyDict) @@ cache_fknm
    /\ thr' = [thr EXCEPT ![t].pc = "walk"]
    /\ UNCHANGED <<pool, robot, cache, cache_end, ret, calls, mode, J0>>

\* lines 1292-1312: the climb, on the caller's own locals
WalkStep(t) ==
    /\ thr[t].pc = "walk"
    /\ LET w == walk(pool, thr[t].end, thr[t].start, <<thr[t].end>>,
                     IF pool[thr[t].end].isjoint THEN 1 ELSE 0, {thr[t].end})
       IN  thr' = [thr EXCEPT ![t] =
                    IF w.status = "ok"
                    THEN [@ EXCEPT !.pc = "store", !.path = Reverse(w.path),
                                   !.n = w.n,
                                   !.tool = IF @ = NoTool THEN Eye ELSE @]
                    ELSE [@ EXCEPT !.pc = "done", !.status = w.status,
                                   !.err = w.err]]
    /\ UNCHANGED <<pool, robot, cache, cache_fknm, cache_end, ret, calls, mode, J0>>

\* the tuples get_path stores and returns
EntryOf(c) == [path |-> c.path, n |-> c.n, tool |-> c.tool]
EntryFknmOf(c) ==
    [path |-> [i \in 1..Len(c.path) |-> Fknm(c.path[i])], n |-> c.n,
     tool |-> MatrixOf(c.tool)]

\* line 1314: self._path_cache[start.name][end.name] = (path, n, tool)
StoreCacheStep(t) ==
    /\ thr[t].pc = "store"
    /\ LET sn == pool[thr[t].start].name
           en == pool[thr[t].end].name
       IN  IF sn \in DOMAIN cache
           THEN /\ cache' = Store2(cache, sn, en, EntryOf(thr[t]))
                /\ thr' = [thr EXCEPT ![t].pc = "store_fknm"]
           ELSE /\ cache' = cache
                /\ thr' = [thr EXCEPT ![t].pc = "done", ![t].status = "error",
                                      ![t].err = "KeyError"]
    /\ UNCHANGED <<pool, robot, cache_fknm, cache_end, ret, calls, mode, J0>>

\* lines 1315-1320: self._path_cache_fknm[start.name][end.name] = ..., return
StoreFknmStep(t) ==
    /\ thr[t].pc = "store_fknm"
    /\ LET sn == pool[thr[t].start].name
           en == pool[thr[t].end].name
       IN  IF sn \in DOMAIN cache_fknm
           THEN /\ cache_fknm' = Store2(cache_fknm, sn, en, EntryFknmOf(thr[t]))
                /\ thr' = [thr EXCEPT ![t].pc = "done", ![t].status = "ok",
                                      ![t].val = IF thr[t].fknm
                                                 THEN EntryFknmOf(thr[t])
                                                 ELSE EntryOf(thr[t])]
           ELSE /\ cache_fknm' = cache_fknm
                /\ thr' = [thr EXCEPT ![t].pc = "done", ![t].status = "error",
                                      ![t].err = "KeyError"]
    /\ UNCHANGED <<pool, robot, cache, cache_end, ret, calls, mode, J0>>

NextRace ==
    \/ Construct
    \/ \E t \in Callers : Call(t)
    \/ \E t \in Callers : LookupStep(t)
    \/ \E t \in Callers : CheckStep(t)
    \/ \E t \in Callers : InitCacheStep(t)
    \/ \E t \in Callers : InitFknmStep(t)
    \/ \E t \in Callers : WalkStep(t)
    \/ \E t \in Callers : StoreCacheStep(t)
    \/ \E t \in Callers : StoreFknmStep(t)

SpecRace == InitRace /\ [][NextRace]_vars

-----------------------------------------------------------------------------
(* fkine.  A transform is the sequence of its factors, left to right: the  *)
(* base transform, link transforms A(q), tool transforms.  Identity        *)
(* factors (SE3(), the 4x4 eye) are left out.                              *)

LinkA(l) == [f |-> "A", id |-> l]
BaseA == [f |-> "base", id |-> 0]
\* tool k is the tool of gripper k; tool 0 is the tool argument of the call
ToolA(k) == [f |-> "tool", id |-> k]

\* etool * tool, lines 1122-1127; no factor at all: tool is None
ToolOf(etool, tool) ==
    (IF etool.t = "gripper.tool" THEN <<ToolA(etool.g)>> ELSE <<>>)
        \o (IF tool THEN <<ToolA(0)>> ELSE <<>>)

KinOut(status, err, T, none, ll, c, cf) ==
    [status |-> status, err |-> err, T |-> T, none |-> none,
     end |-> ll.end, start |-> ll.start,
     cache |-> c, cache_fknm |-> cf, lim |-> ll.lim]

\* the element of a one-element set: names a result that is computed once
Only(S) == CHOOSE x \in S : TRUE

\* lines 1150-1162: from link toward the base, multiplying on the left; Tk is
\* None while none holds; deg are the links whose A(q, fast=True) is None
RECURSIVE climb(_, _, _, _, _, _, _)
climb(p, link, start, Tk, none, deg, seen) ==
    IF p[link].parent.kind # "ref"
    THEN [status |-> "ok", err |-> "", T |-> Tk, none |-> none]
    ELSE LET up == p[link].parent.id
         IN  IF up \notin deg /\ none
             THEN [status |-> "error", err |-> "A @ None raises",
                   T |-> <<>>, none |-> TRUE]
             ELSE LET Tk1 == IF up \in deg THEN Tk ELSE <<LinkA(up)>> \o Tk
                  IN  IF up = start
                      THEN [status |-> "ok", err |-> "", T |-> Tk1, none |-> none]
                      ELSE IF up \in seen
                      THEN [status |-> "hang", err |-> "", T |-> <<>>, none |-> TRUE]
                      ELSE climb(p, up, start, Tk1, none, deg, seen \cup {up})

\* lines 1164-1166: add the base transform if it is set and start is the base link
WithBase(a, start, base, w) ==
    IF w.status # "ok" \/ ~(a.has_base /\ start = base) THEN w
    ELSE IF w.none
    THEN [status |-> "error", err |-> "A @ None raises", T |-> <<>>, none |-> TRUE]
    ELSE [w EXCEPT !.T = <<BaseA>> \o w.T]

\* lines 1137-1147: the end link's transform with the tool; None when the
\* link is degenerate and there is no tool
EndT(ll, a) ==
    (IF ll.end \in a.deg THEN <<>> ELSE <<LinkA(ll.end)>>) \o ToolOf(ll.tool, a.tool)
EndNone(ll, a) == ll.end \in a.deg /\ ll.tool = NoTool /\ ~a.tool

\* lines 1132-1171, once _get_limit_links has returned ll
fkine_links(p, r, c, cf, ll, a) ==
    IF ll.err # "" THEN KinOut("error", ll.err, <<>>, TRUE, ll, c, cf)
    ELSE Only({ KinOut(w.status, w.err, w.T, w.none, ll, c, cf) :
                w \in { WithBase(a, ll.start, r.base, k) :
                        k \in {climb(p, ll.end, ll.start, EndT(ll, a),
                                     EndNone(ll, a), a.deg, {ll.end})} } })

\* lines 1118-1171, fast=False, for one row of q
fkine_python(p, r, c, cf, lim, a) ==
    Only({ fkine_links(p, r, c, cf, ll, a) :
           ll \in {get_limit_links(r, lim, a.end, a.start)} })

\* the transforms of the links path[i..], those that are the identity left out
RECURSIVE PathFactors(_, _, _)
PathFactors(path, deg, i) ==
    IF i > Len(path) THEN <<>>
    ELSE (IF path[i].fknm \in deg THEN <<>> ELSE <<LinkA(path[i].fknm)>>)
             \o PathFactors(path, deg, i + 1)

\* fknm.fkine(m, path, q, etool, tool, T): the links of path in order, then
\* etool, then tool
fknm_fkine(path, etool, tool, deg) ==
    PathFactors(path, deg, 1) \o ToolOf(etool.A, tool)

\* lines 1103-1114, once get_path has returned g
fkine_path(g, a) ==
    IF g.status # "ok"
    THEN KinOut(g.status, g.err, <<>>, TRUE, g, g.cache, g.cache_fknm)
    ELSE KinOut("ok", "",
                (IF a.include_base /\ a.has_base THEN <<BaseA>> ELSE <<>>)
                    \o fknm_fkine(g.val.path, g.val.tool, a.tool, a.deg),
                FALSE, g, g.cache, g.cache_fknm)

\* lines 1101-1114, fast=True
fkine_fast(p, r, c, cf, lim, a) ==
    Only({ fkine_path(g, a) :
           g \in {get_path(p, r, c, cf, lim, a.end, a.start, TRUE)} })

\* ERobot.fkine(q, end, start, tool, include_base, fast), lines 1100-1171
fkine(p, r, c, cf, lim, a) ==
    IF a.fast THEN fkine_fast(p, r, c, cf, lim, a)
    ELSE fkine_python(p, r, c, cf, lim, a)

\* the links without a joint: those whose transform may be the identity
Constant(p) == {l \in DOMAIN p : ~p[l].isjoint}

\* robot.fkine(q, end=end, start=start, tool=tool, fast=fast), q of the
\* robot's size, on a robot whose base transform is set or not
Fkine ==
    /\ robot.status = "ok"
    /\ ret.op = "init"
    /\ \E end \in EndArgs, start \in StartArgs, has_base \in BOOLEAN :
       \E fast \in BOOLEAN, tool \in BOOLEAN, deg \in SUBSET Constant(pool) :
       \E a \in {[end |-> end, start |-> start, tool |-> tool, fast |-> fast,
                  include_base |-> TRUE, has_base |-> has_base, deg |-> deg]} :
       \E k \in {fkine(pool, robot, cache, cache_fknm, cache_end, a)} :
          /\ cache' = k.cache
          /\ cache_fknm' = k.cache_fknm
          /\ cache_end' = k.lim
          /\ ret' = [op |-> "fkine", status |-> k.status, err |-> k.err,
                     T |-> k.T, none |-> k.none,
                     end |-> k.end, start |-> k.start, arg |-> a]
    /\ calls' = calls + 1
    /\ UNCHANGED <<pool, robot, mode, thr, J0>>

\* getvector(v, dim) and verifymatrix(m, (6, n)): the argument is returned when
\* it has the size asked for, an exception is raised when it has not
getvector(len, dim) ==
    IF len = dim THEN "" ELSE "ValueError: incorrect vector length"
verifymatrix(cols, n) ==
    IF cols = n THEN "" ELSE "ValueError: incorrect matrix dimensions"

\* what a jacob0 or hessian0 call leaves: its outcome, the number of joints of
\* the path and the trailing dimensions of the array returned
ArrayOut(status, err, n, g) ==
    [status |-> status, err |-> err, n |-> n,
     shape |-> IF status = "ok" THEN <<6, n>> ELSE <<>>,
     end |-> g.end, start |-> g.start,
     cache |-> g.cache, cache_fknm |-> g.cache_fknm, lim |-> g.lim]

\* the fkine call of line 1393, on a robot whose base transform is set or not
FkineArgs(end, start, has_base) ==
    [end |-> end, start |-> start, tool |-> FALSE, fast |-> FALSE,
     include_base |-> FALSE, has_base |-> has_base, deg |-> {}]

\* the analytical representations of lines 1449-1463, the values of half of
\* lines 1470-1473, and None
Representations == {"rpy-xyz", "rpy-zyx", "eul", "exp"}
Halves == {"trans", "rot"}
None == "None"

\* the options of a jacob0 call; tool and T are not given
JacobOpts(has_base, analytical, half, fast) ==
    [has_base |-> has_base, analytical |-> analytical, half |-> half, fast |-> fast]
JacobDefaults == JacobOpts(FALSE, None, None, FALSE)

\* what a jacob0 call leaves: as ArrayOut, with the links the columns of J
\* were computed for, in column order, the number of rows of J, and the
\* transform T the columns were computed against
JacobOut(status, err, n, cols, rows, T, g) ==
    [status |-> status, err |-> err, n |-> n,
     shape |-> IF status = "ok" THEN <<rows, n>> ELSE <<>>,
     cols |-> cols, T |-> T,
     end |-> g.end, start |-> g.start,
     cache |-> g.cache, cache_fknm |-> g.cache_fknm, lim |-> g.lim]

\* lines 1401-1445: one column for every joint link of path[i..], in order,
\* none for the other links
RECURSIVE Columns0(_, _, _)
Columns0(p, path, i) ==
    IF i > Len(path) THEN <<>>
    ELSE (IF p[path[i]].isjoint THEN <<path[i]>> ELSE <<>>) \o Columns0(p, path, i + 1)

\* lines 1447-1465
Analytical(o) ==
    IF o.analytical # None /\ o.half # "trans" /\ o.analytical \notin Representations
    THEN "ValueError: bad order specified"
    ELSE ""

\* lines 1447-1478, on the J computed against the transform of the fkine
\* result k
jacob0_finish(p, g, k, o) ==
    IF Analytical(o) # ""
    THEN JacobOut("error", Analytical(o), 0, <<>>, 0, <<>>, k)
    ELSE IF o.half # None /\ o.half \notin Halves
    THEN JacobOut("error", "ValueError: bad half specified", 0, <<>>, 0, <<>>, k)
    ELSE JacobOut("ok", "", g.val.n, Columns0(p, g.val.path, 1),
                  IF o.half = None THEN 6 ELSE 3, k.T, k)

\* lines 1390-1478, once get_path has returned g
jacob0_path(p, r, g, end, start, qlen, o) ==
    IF g.status # "ok" THEN JacobOut(g.status, g.err, 0, <<>>, 0, <<>>, g)
    ELSE IF getvector(qlen, r.n) # ""
    THEN JacobOut("error", getvector(qlen, r.n), 0, <<>>, 0, <<>>, g)
    ELSE Only({ IF k.status # "ok"
                THEN JacobOut(k.status, k.err, 0, <<>>, 0, <<>>, k)
                ELSE jacob0_finish(p, g, k, o) :
                k \in {fkine(p, r, g.cache, g.cache_fknm, g.lim,
                             FkineArgs(end, start, o.has_base))} })

\* fknm.jacob0(len(path), n, path, q, etool, tool, J): a column for every
\* joint link of path
fknm_jacob0(p, path) ==
    Columns0(p, [i \in 1..Len(path) |-> path[i].fknm], 1)

\* lines 1376-1382, once get_path has returned g
jacob0_fast(p, g) ==
    IF g.status # "ok" THEN JacobOut(g.status, g.err, 0, <<>>, 0, <<>>, g)
    ELSE JacobOut("ok", "", g.val.n, fknm_jacob0(p, g.val.path), 6, <<>>, g)

\* lines 1375-1478, for a q of qlen entries
jacob0(p, r, c, cf, lim, end, start, qlen, o) ==
    IF o.fast
    THEN Only({ jacob0_fast(p, g) :
                g \in {get_path(p, r, c, cf, lim, end, start, TRUE)} })
    ELSE Only({ jacob0_path(p, r, g, end, start, qlen, o) :
                g \in {get_path(p, r, c, cf, lim, end, start, FALSE)} })

\* lines 1724-1730 and the shape of H, once get_path has returned g; size is
\* the length of q when q is given and the number of columns of J0 (a matrix
\* of six rows) otherwise
hessian0_path(p, r, ll, g, given, size) ==
    IF g.status # "ok" THEN ArrayOut(g.status, g.err, 0, g)
    ELSE IF given = "J0"
    THEN IF verifymatrix(size, g.val.n) # ""
         THEN ArrayOut("error", verifymatrix(size, g.val.n), 0, g)
         ELSE ArrayOut("ok", "", g.val.n, g)
    ELSE IF getvector(size, g.val.n) # ""
    THEN ArrayOut("error", getvector(size, g.val.n), 0, g)
    ELSE Only({ IF j.status # "ok" THEN j ELSE ArrayOut("ok", "", g.val.n, j) :
                j \in {jacob0(p, r, g.cache, g.cache_fknm, g.lim,
                              RefP(ll.end), RefP(ll.start), size,
                              JacobDefaults)} })

\* line 1716, once _get_limit_links has returned ll
hessian0_links(p, r, c, cf, ll, given, size) ==
    IF ll.err # ""
    THEN ArrayOut("error", ll.err, 0, [end |-> ll.end, start |-> ll.start,
                      cache |-> c, cache_fknm |-> cf, lim |-> ll.lim])
    ELSE Only({ hessian0_path(p, r, ll, g, given, size) :
                g \in {get_path(p, r, c, cf, ll.lim,
                                RefP(ll.end), RefP(ll.start), FALSE)} })

\* lines 1715-1730
hessian0(p, r, c, cf, lim, end, start, given, size) ==
    Only({ hessian0_links(p, r, c, cf, ll, given, size) :
           ll \in {get_limit_links(r, lim, end, start)} })

\* the lengths of q and the column counts of J0 tried
Sizes == 0..MaxLinks

\* robot.jacob0(q, end=end, start=start), on a robot whose base transform is
\* set or not
Jacob0 ==
    /\ robot.status = "ok"
    /\ ret.op = "init"
    /\ \E end \in EndArgs, start \in StartArgs, size \in Sizes :
       \E has_base \in BOOLEAN :
       \E o \in {JacobOpts(has_base, None, None, FALSE)} :
       \E j \in {jacob0(pool, robot, cache, cache_fknm, cache_end,
                        end, start, size, o)} :
          /\ cache' = j.cache
          /\ cache_fknm' = j.cache_fknm
          /\ cache_end' = j.lim
          /\ ret' = [op |-> "jacob0", status |-> j.status, err |-> j.err,
                     n |-> j.n, shape |-> j.shape, cols |-> j.cols, T |-> j.T,
                     end |-> j.end, start |-> j.start,
                     arg_end |-> end, arg_start |-> start,
                     given |-> "q", size |-> size, opts |-> o]
    /\ calls' = calls + 1
    /\ UNCHANGED <<pool, robot, mode, thr, J0>>

\* the values of analytical and of half tried
AnalyticalArgs == {None, "quat"} \cup Representations
HalfArgs == {None} \cup Halves

\* robot.jacob0(q, end=end, start=start, analytical=analytical, half=half,
\* fast=fast), q of the robot's size
Jacob0Analytical ==
    /\ robot.status = "ok"
    /\ ret.op = "init"
    /\ \E end \in EndArgs, start \in StartArgs :
       \E analytical \in AnalyticalArgs \ {None}, half \in HalfArgs, fast \in BOOLEAN :
       \E o \in {JacobOpts(FALSE, analytical, half, fast)} :
       \E j \in {jacob0(pool, robot, cache, cache_fknm, cache_end,
                        end, start, robot.n, o)} :
          /\ cache' = j.cache
          /\ cache_fknm' = j.cache_fknm
          /\ cache_end' = j.lim
          /\ ret' = [op |-> "jacob0", status |-> j.status, err |-> j.err,
                     n |-> j.n, shape |-> j.shape, cols |-> j.cols, T |-> j.T,
                     end |-> j.end, start |-> j.start,
                     arg_end |-> end, arg_start |-> start,
                     given |-> "q", size |-> robot.n, opts |-> o]
    /\ calls' = calls + 1
    /\ UNCHANGED <<pool, robot, mode, thr, J0>>

\* robot.hessian0(q, end=end, start=start) and
\* robot.hessian0(J0=J0, end=end, start=start)
Hessian0Call ==
    /\ robot.status = "ok"
    /\ ret.op = "init"
    /\ \E end \in EndArgs, start \in StartArgs, size \in Sizes :
       \E given \in {"q", "J0"} :
       \E h \in {hessian0(pool, robot, cache, cache_fknm, cache_end,
                          end, start, given, size)} :
          /\ cache' = h.cache
          /\ cache_fknm' = h.cache_fknm
          /\ cache_end' = h.lim
          /\ ret' = [op |-> "hessian0", status |-> h.status, err |-> h.err,
                     n |-> h.n,
                     shape |-> IF h.status = "ok" THEN <<6, h.n, h.n>> ELSE <<>>,
                     end |-> h.end, start |-> h.start,
                     arg_end |-> end, arg_start |-> start,
                     given |-> given, size |-> size]
    /\ calls' = calls + 1
    /\ UNCHANGED <<pool, robot, mode, thr, J0>>

NextKin == Construct \/ Fkine \/ Jacob0 \/ Jacob0Analytical \/ Hessian0Call

SpecKin == InitPath /\ [][NextKin]_vars

-----------------------------------------------------------------------------
(* rne.  The call is followed loop iteration by loop iteration; thr holds  *)
(* the frame of the running call: the loop it is in (pc), the index j of   *)
(* the iteration that runs next, the indices whose v, a and f the forward  *)
(* pass has written (v), the link used for every Q[j] assigned (Q), how    *)
(* often each Q[j] was assigned (times), and the indices k for which f[k]  *)
(* was added to after Q[k] had been read (late).  Joint indices count from *)
(* zero as in the code.                                                    *)

\* the robots rne is called on: those of PathPools, and robots of joints
\* only: a chain and a branched tree without joint indices, and a chain and a
\* branched tree whose given joint indices do not follow the parents
RnePools ==
    PathPools \cup
    { <<ELink("a", NoneP, TRUE, NoIdx), ELink("b", RefP(1), TRUE, NoIdx),
        ELink("c", RefP(2), TRUE, NoIdx)>>,
      <<ELink("a", NoneP, TRUE, NoIdx), ELink("b", RefP(1), TRUE, NoIdx),
        ELink("c", RefP(1), TRUE, NoIdx), ELink("d", RefP(2), TRUE, NoIdx)>>,
      <<ELink("a", NoneP, TRUE, 1), ELink("b", RefP(1), TRUE, 0),
        ELink("c", RefP(2), TRUE, 2)>>,
      <<ELink("a", NoneP, TRUE, 0), ELink("b", RefP(1), TRUE, 2),
        ELink("c", RefP(2), TRUE, 1), ELink("d", RefP(1), TRUE, 3)>> }

InitRne ==
    /\ mode = "path"
    /\ pool \in RnePools
    /\ robot = NoRobot
    /\ cache = EmptyDict
    /\ cache_fknm = EmptyDict
    /\ cache_end = NoLimits
    /\ calls = 0
    /\ ret = [op |-> "none", links |-> <<>>, gl |-> <<>>, chk |-> TRUE, pre |-> pool]
    /\ thr = NoThreads
    /\ J0 = NoJacobian

\* robot[j] and len(robot): the links handed to the base class at line 267
Item(r, j) == r.orlinks[j + 1]
Length(r) == Len(r.orlinks)

\* lines 1912-1923
Frame ==
    [pc |-> "init", j |-> 0, v |-> {},
     Q |-> [k \in 0..(robot.n - 1) |-> NoLink],
     times |-> [k \in 0..(robot.n - 1) |-> 0], late |-> {}, stale |-> {}]

\* the call raises: its frame is gone and the exception is what it leaves
Raised(err) ==
    /\ thr' = NoThreads
    /\ ret' = [op |-> "rne", status |-> "error", err |-> err,
               Q |-> thr.Q, times |-> thr.times, late |-> thr.late,
               stale |-> thr.stale]

\* line 1971
ReturnQ ==
    /\ thr' = NoThreads
    /\ ret' = [op |-> "rne", status |-> "ok", err |-> "",
               Q |-> thr.Q, times |-> thr.times, late |-> thr.late,
               stale |-> thr.stale]

\* robot.rne(q, qd, qdd), q, qd and qdd of robot.n entries: lines 1910-1923
RneCall ==
    /\ robot.status = "ok"
    /\ ret.op = "init"
    /\ thr = NoThreads
    /\ thr' = Frame
    /\ calls' = calls + 1
    /\ UNCHANGED <<pool, robot, cache, cache_fknm, cache_end, ret, mode, J0>>

\* lines 1926-1932, iteration j of enumerate(robot): I[j], Xtree[j] and s[j]
\* have n places
RneInitStep ==
    /\ thr # NoThreads /\ thr.pc = "init"
    /\ IF thr.j >= Length(robot)
       THEN thr' = [thr EXCEPT !.pc = "forward", !.j = 0] /\ UNCHANGED ret
       ELSE IF thr.j >= robot.n
       THEN Raised("IndexError")
       ELSE thr' = [thr EXCEPT !.j = @ + 1] /\ UNCHANGED ret
    /\ UNCHANGED <<pool, robot, cache, cache_fknm, cache_end, calls, mode, J0>>

\* the joint index of the parent of robot[j], lines 1953 and 1968
ParentIndex(j) == pool[pool[Item(robot, j)].parent.id].jindex

\* lines 1940-1958, iteration j of the forward recursion
RneForwardStep ==
    /\ thr # NoThreads /\ thr.pc = "forward"
    /\ IF thr.j >= robot.n
       THEN thr' = [thr EXCEPT !.pc = "backward", !.j = robot.n - 1] /\ UNCHANGED ret
       ELSE IF thr.j >= Length(robot)
       THEN Raised("IndexError")
       ELSE IF pool[Item(robot, thr.j)].parent.kind # "ref"
       THEN thr' = [thr EXCEPT !.v = @ \cup {thr.j}, !.j = @ + 1] /\ UNCHANGED ret
       ELSE IF ParentIndex(thr.j) = NoIdx
       THEN Raised("TypeError")
       ELSE IF ParentIndex(thr.j) >= robot.n
       THEN Raised("IndexError")
       ELSE thr' = [thr EXCEPT !.v = @ \cup {thr.j}, !.j = @ + 1,
                               !.stale = IF ParentIndex(thr.j) \in thr.v THEN @
                                         ELSE @ \cup {thr.j}]
            /\ UNCHANGED ret
    /\ UNCHANGED <<pool, robot, cache, cache_fknm, cache_end, calls, mode, J0>>

\* lines 1961-1969, iteration j of the backward recursion, and line 1971
RneBackwardStep ==
    /\ thr # NoThreads /\ thr.pc = "backward"
    /\ IF thr.j < 0
       THEN ReturnQ
       ELSE IF pool[Item(robot, thr.j)].parent.kind # "ref"
       THEN thr' = [thr EXCEPT !.Q[thr.j] = Item(robot, thr.j),
                               !.times[thr.j] = @ + 1, !.j = @ - 1]
            /\ UNCHANGED ret
       ELSE thr' = [thr EXCEPT !.Q[thr.j] = Item(robot, thr.j),
                               !.times[thr.j] = @ + 1, !.j = @ - 1,
                               !.late = IF ParentIndex(thr.j) >= thr.j
                                        THEN @ \cup {ParentIndex(thr.j)} ELSE @]
            /\ UNCHANGED ret
    /\ UNCHANGED <<pool, robot, cache, cache_fknm, cache_end, calls, mode, J0>>

NextRne ==
    \/ Construct
    \/ RneCall
    \/ RneInitStep
    \/ RneForwardStep
    \/ RneBackwardStep

SpecRne == InitRne /\ [][NextRne]_vars

-----------------------------------------------------------------------------
(* hessian0 on a given Jacobian.  A Jacobian is the sequence of its        *)
(* columns, a column the six entries of one joint: J0[:3, i] then          *)
(* J0[3:, i].  H[i][j] is H[:, i, j], indices counted from 1.              *)

MaxCols == 2

Vectors == {<<0, 0, 0>>, <<1, 0, 0>>, <<0, 1, 0>>, <<0, 0, 1>>, <<1, 1, 0>>}

Columns == {v \o w : v \in Vectors, w \in Vectors}

RECURSIVE Jacobians(_)
Jacobians(n) ==
    IF n = 0 THEN {<<>>}
    ELSE Jacobians(n - 1)
             \cup {Append(J, c) : J \in {K \in Jacobians(n - 1) : Len(K) = n - 1},
                                  c \in Columns}

Upper(c) == SubSeq(c, 1, 3)
Lower(c) == SubSeq(c, 4, 6)

\* lines 1718-1722
cross(a, b) ==
    <<a[2] * b[3] - a[3] * b[2], a[3] * b[1] - a[1] * b[3], a[1] * b[2] - a[2] * b[1]>>

\* line 1730
Zeros(n) == [i \in 1..n |-> [j \in 1..n |-> <<0, 0, 0, 0, 0, 0>>]]

\* the rotational rows mirrored like the translational ones
Mirror_AllRows(H, i, j) ==
    IF i = j THEN H ELSE [H EXCEPT ![j][i] = H[i][j]]

\* lines 1738-1739
Mirror(H, i, j) ==
    IF i = j THEN H ELSE [H EXCEPT ![j][i] = Upper(H[i][j]) \o Lower(H[j][i])]

\* lines 1732-1739, from the iteration (j, i) on
RECURSIVE hessian_loop(_, _, _, _)
hessian_loop(J, j, i, H) ==
    IF j > Len(J) THEN H
    ELSE IF i > Len(J) THEN hessian_loop(J, j + 1, j + 1, H)
    ELSE hessian_loop(J, j, i + 1,
             Mirror([H EXCEPT ![i][j] = cross(Lower(J[j]), Upper(J[i]))
                                            \o cross(Lower(J[j]), Lower(J[i]))],
                    i, j))

\* lines 1730-1741
hessian(J) == hessian_loop(J, 1, 1, Zeros(Len(J)))

InitHess ==
    /\ mode = "hessian"
    /\ pool = <<>>
    /\ robot = NoRobot
    /\ cache = EmptyDict
    /\ cache_fknm = EmptyDict
    /\ cache_end = NoLimits
    /\ calls = 0
    /\ ret = [op |-> "none"]
    /\ thr = NoThreads
    /\ J0 \in Jacobians(MaxCols)

\* robot.hessian0(J0=J0) for a path of as many joints as J0 has columns
Hessian0 ==
    /\ mode = "hessian"
    /\ ret.op = "none"
    /\ ret' = [op |-> "hessian0", H |-> hessian(J0)]
    /\ calls' = calls + 1
    /\ UNCHANGED <<pool, robot, cache, cache_fknm, cache_end, mode, thr, J0>>

NextHess == Hessian0

SpecHess == InitHess /\ [][NextHess]_vars

-----------------------------------------------------------------------------
(* Vocabulary of the properties: the tree as the parent references define  *)
(* it, independently of the children lists the constructor maintains.      *)

Called == ret.op = "init"
Constructed == Called /\ robot.status = "ok"
Failed == Called /\ robot.status = "error"

\* the list handed to the constructor, and the main collection it leaves
Supplied == Range(ret.links)
Main == Range(robot.links)

ParentId(p, l) == IF p[l].parent.kind = "ref" THEN p[l].parent.id ELSE NoLink

\* l and its ancestors, following parent references while they stay inside S
RECURSIVE Up(_, _, _, _)
Up(p, S, l, seen) ==
    IF l \in seen \/ l \notin S THEN seen
    ELSE Up(p, S, ParentId(p, l), seen \cup {l})

AncSelf(p, S, l) == Up(p, S, l, {})

\* the sub-tree below g (g included) within S
SubTree(p, S, g) == {l \in S : g \in AncSelf(p, S, l)}

JointsIn(p, S) == {l \in S : p[l].isjoint}

\* the links of S that no link of S names as its parent
Leaves(p, S) == {l \in S : \A m \in S : ParentId(p, m) # l}

\* every link of S hangs below base by parent references inside S
IsTree(p, S, base) == base \in S /\ \A l \in S : base \in AncSelf(p, S, l)

-----------------------------------------------------------------------------
(* Joint indices.                                                          *)

\* no link of the main collection came with a joint index
AutoIndexed == \A l \in Main : ret.pre[l].jindex = NoIdx

IndexSet(S) == {pool[l].jindex : l \in JointsIn(pool, S)}

IsInterval(I) == I = {} \/ \E lo \in I : I = lo..(lo + Cardinality(I) - 1)

\* the joint links of S carry 0..n-1, each once, numbered in a depth-first
\* pre-order: the joints of every sub-tree carry an interval of indices, which
\* starts at the index of the sub-tree's root when that root is a joint
DensePreOrder(S, n) ==
    /\ IndexSet(S) = 0..(n - 1)
    /\ \A a, b \in JointsIn(pool, S) : a # b => pool[a].jindex # pool[b].jindex
    /\ \A l \in S :
          LET I == IndexSet(SubTree(pool, S, l))
          IN  /\ IsInterval(I)
              /\ pool[l].isjoint => \A k \in I : pool[l].jindex <= k

\* C1: when no link of the main collection has an explicit joint index, after
\* construction its joint links carry exactly 0..n-1 (n the robot's joint
\* count), each once, in depth-first pre-order.
C1_AutoIndexDensePreOrder ==
    (Constructed /\ AutoIndexed) => DensePreOrder(Main, robot.n)

\* the same for the constructions whose main collection is a tree rooted at
\* the base link
C1_OnTrees ==
    (Constructed /\ AutoIndexed /\ IsTree(pool, Main, robot.base))
        => DensePreOrder(Main, robot.n)

\* every joint link of S came with a joint index
AllJointsIndexed(S) == \A l \in JointsIn(ret.pre, S) : ret.pre[l].jindex # NoIdx

\* some joint links of S came with a joint index and others without
MixedIndices(S) ==
    \E a, b \in JointsIn(ret.pre, S) :
        ret.pre[a].jindex # NoIdx /\ ret.pre[b].jindex = NoIdx

\* the given indices of the joint links of S are 0..n-1, each once
ExactIndices(S) ==
    LET J == JointsIn(ret.pre, S)
    IN  /\ {ret.pre[l].jindex : l \in J} = 0..(Cardinality(J) - 1)
        /\ \A a, b \in J : a # b => ret.pre[a].jindex # ret.pre[b].jindex

IndexErrors == {"JindexRepeatedOrOutOfRange", "JindexNotAssigned", "JindexMixture"}

\* C2: when every joint link has an explicit joint index (and checkjindex is
\* left on), construction succeeds exactly when the joint links' indices are
\* 0..n-1 without gap or repeat, whatever the list order and whatever indices
\* the non-joint links carry; otherwise it fails with a validation error.
\* Stated for calls without grippers that no earlier stage rejects.
C2_ExplicitIndicesValidated ==
    (Called /\ ret.gl = <<>> /\ ret.chk
        /\ JointsIn(ret.pre, Supplied) # {} /\ AllJointsIndexed(Supplied)
        /\ (Failed => robot.err \in IndexErrors))
    => /\ Constructed <=> ExactIndices(Supplied)
       /\ Failed => robot.err \in IndexErrors \ {"JindexMixture"}

\* C3 as stated: a list in which some joint links have an explicit index and
\* others have none always fails.
C3_MixedListFails == (Called /\ MixedIndices(Supplied)) => Failed

\* the links below the gripper roots, by parent references
GripperPart == UNION {SubTree(pool, Supplied, ret.gl[i]) : i \in 1..Len(ret.gl)}

\* C3 amended: a call whose main collection (the list without the gripper
\* sub-trees) mixes joint links with and without an explicit index fails:
\* no constructed robot has such a main collection.
C3_MixedMainFails ==
    /\ (Called /\ MixedIndices(Supplied \ GripperPart)) => Failed
    /\ Constructed => ~MixedIndices(Main)

\* a main collection with an indexed and an un-indexed joint is rejected as a mixture
C3_Witness ==
    /\ Failed /\ robot.err = "JindexMixture"
    /\ MixedIndices(Supplied \ GripperPart)

-----------------------------------------------------------------------------
(* Names, base link, sequential linking.                                   *)

\* the name the i-th supplied link goes by: its own, or the one generated for
\* the k-th unnamed link of the list (k counted from 0)
NameOf(i) ==
    LET l == ret.links[i]
    IN  IF ret.pre[l].name # NoName THEN ret.pre[l].name
        ELSE GenName(Cardinality({j \in 1..(i - 1) : ret.pre[ret.links[j]].name = NoName}))

NameClash == \E i, j \in 1..Len(ret.links) : i < j /\ NameOf(i) = NameOf(j)

\* C4: a list in which two links have the same name (a generated name
\* included) fails with the name-conflict error; after a successful
\* construction all link names are distinct.
C4_DuplicateNamesRejected ==
    /\ (Called /\ NameClash) => (Failed /\ robot.err = "NameConflict")
    /\ Constructed =>
          \A a, b \in Supplied :
              /\ pool[a].name # NoName
              /\ a # b => pool[a].name # pool[b].name

\* a user name collides with a name generated for an unnamed link
C4_Witness ==
    /\ Failed /\ robot.err = "NameConflict"
    /\ \E i, j \in 1..Len(ret.links) :
          /\ i # j /\ NameOf(i) = NameOf(j)
          /\ ret.pre[ret.links[i]].name = NoName
          /\ ret.pre[ret.links[j]].name # NoName

\* the supplied links that resolve to parent = none
Parentless == {l \in Supplied : pool[l].parent.kind = "none"}

\* every parent reference of a supplied link stays inside the list
ClosedList == \A l \in Supplied : ParentId(pool, l) \in Supplied \cup {NoLink}

\* C5: construction succeeds only if exactly one supplied link resolves to
\* parent = none, with or without explicit joint indices (checkjindex left on,
\* parents all inside the list).
C5_ExactlyOneBase ==
    (Constructed /\ ret.chk /\ ClosedList) => Cardinality(Parentless) = 1

\* the part of C5 the constructor does enforce: never two parentless links
C5_AtMostOneBase == Constructed => Cardinality(Parentless) <= 1

\* no supplied link came with a parent
NoParentGiven == \A l \in Supplied : ret.pre[l].parent.kind = "none"

\* C6: if no supplied link specifies a parent, the links are chained in the
\* order supplied: link i+1 gets link i as parent, the first link is the base
\* and the last link is the only leaf (so the call never ends in the
\* multiple-base error).
C6_SequentialChain ==
    (Called /\ NoParentGiven)
    => /\ robot.err # "MultipleBase"
       /\ Constructed =>
             /\ robot.base = ret.links[1]
             /\ pool[ret.links[1]].parent = NoneP
             /\ \A i \in 1..(Len(ret.links) - 1) :
                   /\ pool[ret.links[i + 1]].parent = RefP(ret.links[i])
                   /\ pool[ret.links[i]].children = <<ret.links[i + 1]>>
             /\ Leaves(pool, Supplied) = {ret.links[Len(ret.links)]}
             /\ pool[ret.links[Len(ret.links)]].children = <<>>

C6_Witness ==
    /\ Constructed /\ NoParentGiven /\ Len(ret.links) >= 3
    /\ pool[ret.links[3]].parent = RefP(ret.links[2])

-----------------------------------------------------------------------------
(* Grippers, end-effectors, branches.                                      *)

\* C7: for each gripper root, every link of its sub-tree and no other link
\* leaves the main collection and is placed in a Gripper; the robot's joint
\* count n is the number of joint links remaining in the main collection.
C7_GripperExtraction ==
    Constructed =>
       /\ Len(robot.grippers) = Len(ret.gl)
       /\ \A i \in 1..Len(ret.gl) :
             /\ Range(robot.grippers[i]) = SubTree(pool, Supplied, ret.gl[i])
             /\ Len(robot.grippers[i]) = Cardinality(Range(robot.grippers[i]))
       /\ Main = Supplied \ GripperPart
       /\ Len(robot.links) = Cardinality(Main)
       /\ robot.n = Cardinality(JointsIn(pool, Main))

\* a gripper of two links with a joint is cut from a tree that keeps a joint
C7_Witness ==
    /\ Constructed /\ Len(ret.gl) >= 1
    /\ Len(robot.grippers[1]) >= 2
    /\ JointsIn(pool, Range(robot.grippers[1])) # {}
    /\ robot.n >= 1
    /\ Main # {}

NoRepeats(seq) == Len(seq) = Cardinality(Range(seq))

\* C8: after construction the end-effector set is, without grippers, exactly
\* the links with zero children (the links nobody names as parent); with
\* grippers, the parent of each gripper root, one entry per gripper.
C8_EndEffectors ==
    Constructed =>
       IF ret.gl = <<>>
       THEN /\ Range(robot.ee) = {l \in Main : pool[l].children = <<>>}
            /\ Range(robot.ee) = Leaves(pool, Supplied)
            /\ NoRepeats(robot.ee)
       ELSE /\ Len(robot.ee) = Len(ret.gl)
            /\ \A i \in 1..Len(ret.gl) : robot.ee[i] = ParentId(pool, ret.gl[i])

\* two leaves without grippers
C8_WitnessLeaves ==
    /\ Constructed /\ ret.gl = <<>> /\ Len(robot.ee) = 2 /\ Cardinality(Main) = 4

\* two grippers hanging off different links
C8_WitnessGrippers ==
    /\ Constructed /\ Len(ret.gl) = 2
    /\ robot.ee[1] # robot.ee[2] /\ robot.ee[1] # NoLink /\ robot.ee[2] # NoLink

\* C9: the branch count is the number of leaf links of the final tree, the
\* main tree after the gripper sub-trees have been removed; a serial chain
\* whose last link carries one gripper has branch count 1.
C9_BranchCount ==
    Constructed => robot.nbranches = Cardinality(Leaves(pool, Main))

\* what line 243 counts: the main links whose children list is empty, where
\* a gripper root still is a child of its parent
C9_CountsChildless ==
    Constructed =>
        robot.nbranches = Cardinality({l \in Main : pool[l].children = <<>>})

-----------------------------------------------------------------------------
(* Paths.                                                                  *)

Resolved == ret.op = "get_path" /\ ret.end # NoLink /\ ret.start # NoLink
Returned == Resolved /\ ret.status = "ok"

\* the links a get_path call returned, as links also when it returned the
\* links' native handles
PathLinks ==
    [i \in 1..Len(ret.val.path) |->
        IF ret.fknm THEN ret.val.path[i].fknm ELSE ret.val.path[i]]

\* end hangs strictly below start by parent references
Descends(p, end, start) ==
    end # start /\ start \in AncSelf(p, DOMAIN p, ParentId(p, end))

\* the parent chain from start down to l, both included
RECURSIVE ChainDown(_, _, _)
ChainDown(p, start, l) ==
    IF l = start THEN <<l>> ELSE Append(ChainDown(p, start, ParentId(p, l)), l)

JointCount(p, path) == Cardinality({i \in 1..Len(path) : p[path[i]].isjoint})

\* C10 as stated: for end a descendant of start, get_path returns the links of
\* the parent chain ordered from start toward end, start excluded and end
\* included (the first is start's child, the last is end), and the number of
\* joint links among the links returned.
C10_PathExcludesStart ==
    (Resolved /\ Descends(pool, ret.end, ret.start))
    => /\ ret.status = "ok"
       /\ PathLinks = Tail(ChainDown(pool, ret.start, ret.end))
       /\ ParentId(pool, PathLinks[1]) = ret.start
       /\ PathLinks[Len(PathLinks)] = ret.end
       /\ ret.val.n = JointCount(pool, PathLinks)

\* C10 amended: for end a descendant of start, get_path returns the links of
\* the parent chain ordered from start toward end, start and end both included
\* (the first is start, the last is end), and the number of joint links among
\* the links returned, start counted when it is a joint.
C10_PathIncludesStart ==
    (Resolved /\ Descends(pool, ret.end, ret.start))
    => /\ ret.status = "ok"
       /\ PathLinks = ChainDown(pool, ret.start, ret.end)
       /\ PathLinks[1] = ret.start
       /\ PathLinks[Len(PathLinks)] = ret.end
       /\ \A i \in 2..Len(PathLinks) : ParentId(pool, PathLinks[i]) = PathLinks[i - 1]
       /\ ret.val.n = JointCount(pool, PathLinks)

\* a path of three links computed from a start that is a joint and is not the base
C10_Witness ==
    /\ Returned /\ ~ret.hit /\ ~ret.fknm
    /\ Len(ret.val.path) = 3
    /\ ret.start # robot.base
    /\ pool[ret.start].isjoint
    /\ ret.val.n = 2

\* following parent references from end never reaches start
NotReached(p, end, start) ==
    end # start /\ start \notin AncSelf(p, DOMAIN p, end)

\* no parent chain of p runs into a cycle: every link hangs below a parentless one
Rooted(p) ==
    \A l \in DOMAIN p : \E b \in AncSelf(p, DOMAIN p, l) : p[b].parent.kind = "none"

HasEntry(d, sn, en) == sn \in DOMAIN d /\ en \in DOMAIN d[sn]

\* the last call asked for a path that does not exist
NotFoundCall == Resolved /\ NotReached(pool, ret.end, ret.start)

\* such a call raised the path-not-found error and left no entry for the pair
NotFoundOutcome ==
    NotFoundCall =>
        /\ ret.status = "error"
        /\ ret.err = "ValueError: cannot find path"
        /\ ~HasEntry(cache, pool[ret.start].name, pool[ret.end].name)
        /\ ~HasEntry(cache_fknm, pool[ret.start].name, pool[ret.end].name)

\* the last call asked for a path that exists, and got it
ValidCall == Resolved /\ (ret.end = ret.start \/ Descends(pool, ret.end, ret.start))
CorrectPath ==
    /\ ret.status = "ok"
    /\ PathLinks = ChainDown(pool, ret.start, ret.end)
    /\ ret.val.n = JointCount(pool, PathLinks)

\* C11: when end is not start and following parent references from end never
\* reaches start, get_path fails with the path-not-found error and stores no
\* cache entry for the pair; a get_path call made next for a valid pair with
\* the same start returns the correct path.
C11_PathNotFound ==
    [][ /\ NotFoundOutcome'
        /\ (NotFoundCall /\ ValidCall' /\ ret'.start = ret.start) => CorrectPath'
      ]_vars

\* the same on robots whose parent references run into no cycle
C11_OnRootedTrees ==
    [][ /\ Rooted(pool') => NotFoundOutcome'
        /\ (NotFoundCall /\ ret.status = "error"
              /\ ValidCall' /\ ret'.start = ret.start) => CorrectPath'
      ]_vars

\* a failed call is followed by a successful one from the same start
C11_Witness ==
    /\ Returned /\ ~ret.hit /\ Len(ret.val.path) >= 2
    /\ calls = 2
    /\ pool[ret.start].name \in DOMAIN cache
    /\ Cardinality(DOMAIN cache[pool[ret.start].name]) = 1
    /\ \E l \in DOMAIN pool : NotReached(pool, l, ret.start)

AmbiguityErrors ==
    {"ValueError: Must specify which gripper",
     "ValueError: Must specify which end-effector"}

\* C12: with no explicit end the target is the sole gripper's root link with
\* that gripper's tool when there is exactly one gripper, else the sole
\* end-effector when there is exactly one, else the call fails with an
\* ambiguity error; with no explicit start the base link is used (ret.end
\* is NoLink when the call raised before both limits were resolved).  On a
\* branched tree with two leaf end-effectors and no gripper a call without end
\* fails and a call naming either end-effector succeeds.
C12_DefaultTargets ==
    ret.op = "get_path" =>
      /\ ret.arg_end = NoneP =>
            IF Len(robot.grippers) = 1
            THEN /\ ret.err \notin AmbiguityErrors
                 /\ cache_end.end = robot.grippers[1][1]
                 /\ cache_end.tool = GripperTool(1)
                 /\ ret.end \in {NoLink, robot.grippers[1][1]}
            ELSE IF Len(robot.grippers) = 0 /\ Len(robot.ee) = 1
            THEN /\ ret.err \notin AmbiguityErrors
                 /\ cache_end.end = robot.ee[1]
                 /\ cache_end.tool = NoTool
                 /\ ret.end \in {NoLink, robot.ee[1]}
            ELSE /\ ret.status = "error" /\ ret.err \in AmbiguityErrors
                 /\ ~ret.hit
      /\ (ret.arg_start = NoneP /\ ret.end # NoLink) =>
            /\ ret.start = robot.base
            /\ cache_end.start = robot.base
      /\ (Len(robot.grippers) = 0 /\ Len(robot.ee) = 2 /\ Rooted(pool)
            /\ ret.arg_start = NoneP /\ ret.arg_end # NoneP
            /\ ret.end \in Range(robot.ee))
         => CorrectPath

\* the sole gripper is taken as the default end, with its tool
C12_Witness ==
    /\ Returned /\ ret.arg_end = NoneP /\ ret.arg_start = NoneP
    /\ Len(robot.grippers) = 1
    /\ cache_end.tool = GripperTool(1)
    /\ Len(ret.val.path) >= 2

\* on the branched tree the call without end fails
C12_WitnessAmbiguous ==
    /\ ret.op = "get_path" /\ ret.arg_end = NoneP
    /\ Len(robot.grippers) = 0 /\ Len(robot.ee) = 2
    /\ ret.err = "ValueError: Must specify which end-effector"

\* every entry of d is an entry of e, unchanged
Keeps(d, e) ==
    \A sn \in DOMAIN d :
        /\ sn \in DOMAIN e
        /\ \A en \in DOMAIN d[sn] : en \in DOMAIN e[sn] /\ e[sn][en] = d[sn][en]

\* C13: a get_path call that repeats the previous call returns an equal
\* result; a call for a pair of links just resolved is served from the cache
\* without walking the parent chain again; no get_path call changes or
\* removes an entry either cache holds.
C13_Idempotent ==
    [][ ret'.op = "get_path" =>
          /\ Keeps(cache, cache')
          /\ Keeps(cache_fknm, cache_fknm')
          /\ (Returned /\ Resolved' /\ ret'.end = ret.end /\ ret'.start = ret.start)
                => (ret'.status = "ok" /\ ret'.hit)
          /\ (Returned /\ ret'.arg_end = ret.arg_end
                /\ ret'.arg_start = ret.arg_start /\ ret'.fknm = ret.fknm)
                => ret'.val = ret.val
      ]_vars

\* the second of two equal calls is answered from the cache
C13_Witness ==
    /\ Returned /\ ret.hit /\ calls = 2
    /\ Len(ret.val.path) >= 2
    /\ HasEntry(cache, pool[ret.start].name, pool[ret.end].name)
    /\ HasEntry(cache_fknm, pool[ret.start].name, pool[ret.end].name)

\* what the last call would have returned on a robot with empty caches
Uncached ==
    get_path(pool, robot, EmptyDict, EmptyDict, NoLimits,
             ret.arg_end, ret.arg_start, ret.fknm)

\* C14: whatever get_path calls came before, get_path returns the links, the
\* joint count and the tool transform that an uncached resolution of the same
\* arguments returns, also when the same end link is asked for once as a
\* Gripper and once as the gripper's root link.
C14_PureCache ==
    (ret.op = "get_path" /\ ret.status # "hang") =>
        /\ ret.status = Uncached.status
        /\ ret.err = Uncached.err
        /\ ret.val = Uncached.val

\* the part of C14 that holds: the links and the joint count are those of an
\* uncached resolution
C14_PathAndCountPure ==
    (ret.op = "get_path" /\ ret.status # "hang") =>
        /\ ret.status = Uncached.status
        /\ ret.err = Uncached.err
        /\ ret.val.path = Uncached.val.path
        /\ ret.val.n = Uncached.val.n

-----------------------------------------------------------------------------
(* Concurrent first use of the cache.                                      *)

\* caller t has returned the correct path
CallerCorrect(t) ==
    /\ thr[t].status = "ok"
    /\ [i \in 1..Len(thr[t].val.path) |->
          IF thr[t].fknm THEN thr[t].val.path[i].fknm ELSE thr[t].val.path[i]]
       = ChainDown(pool, thr[t].start, thr[t].end)
    /\ thr[t].val.n = JointCount(pool, ChainDown(pool, thr[t].start, thr[t].end))

\* both maps hold the entry of the pair caller t resolved
EntryComplete(t) ==
    LET sn == pool[thr[t].start].name
        en == pool[thr[t].end].name
        chain == ChainDown(pool, thr[t].start, thr[t].end)
    IN  /\ HasEntry(cache, sn, en)
        /\ HasEntry(cache_fknm, sn, en)
        /\ cache[sn][en].path = chain
        /\ cache_fknm[sn][en].path = [i \in 1..Len(chain) |-> Fknm(chain[i])]
        /\ cache[sn][en].n = JointCount(pool, chain)
        /\ cache_fknm[sn][en].n = JointCount(pool, chain)

AllDone == \A t \in Callers : thr[t].pc = "done"

\* C15: two callers run get_path concurrently on pairs not yet cached; under
\* every interleaving each call returns the correct path without raising,
\* and when both have returned both cache maps hold a complete and correct
\* entry for every pair that was resolved.
C15_ConcurrentFirstUse ==
    thr # NoThreads =>
        /\ \A t \in Callers : thr[t].pc = "done" => CallerCorrect(t)
        /\ AllDone => \A t \in Callers : EntryComplete(t)

\* what does hold under every interleaving: a caller that returns, returns
\* the correct path
C15_ReturnedPathsCorrect ==
    thr # NoThreads =>
        \A t \in Callers :
            (thr[t].pc = "done" /\ thr[t].status = "ok") => CallerCorrect(t)


-----------------------------------------------------------------------------
(* fkine against the path resolver.                                        *)

FkineCall == ret.op = "fkine"

IsLinkA(x) == x.f = "A"

\* the links whose transforms a transform composes, in the order it has them
LinksOf(T) == [i \in 1..Len(SelectSeq(T, IsLinkA)) |-> SelectSeq(T, IsLinkA)[i].id]

\* what get_path(end, start) gives for the arguments of the last fkine call
PathFor ==
    get_path(pool, robot, EmptyDict, EmptyDict, NoLimits,
             ret.arg.end, ret.arg.start, FALSE)

\* the last fkine call, no link of the robot being degenerate, composed the
\* links of get_path's path in path order, or failed as get_path fails
FollowsPath ==
    /\ PathFor.status = "ok" =>
          ret.status = "ok" /\ LinksOf(ret.T) = PathFor.val.path
    /\ PathFor.status = "error" =>
          ret.status = "error" /\ ret.err = PathFor.err

\* C16: for every (start, end), fkine composes, in path order, the transforms
\* of exactly the links that get_path(end, start) returns (also when start is
\* end), and fails with get_path's error whenever get_path fails for the pair.
C16_FkineFollowsPath ==
    (FkineCall /\ ret.arg.deg = {}) => FollowsPath

\* with fast=True fkine does follow get_path
C16_FastFollowsPath ==
    (FkineCall /\ ret.arg.deg = {} /\ ret.arg.fast) => FollowsPath

\* with fast=False it does so when end hangs strictly below start
C16_SlowFollowsBelow ==
    (/\ FkineCall /\ ret.arg.deg = {} /\ ~ret.arg.fast
     /\ ret.end # NoLink /\ ret.start # NoLink
     /\ Descends(pool, ret.end, ret.start)) => FollowsPath

\* the base transform is a factor of the transform the last call returned
BaseApplied == \E i \in 1..Len(ret.T) : ret.T[i] = BaseA

\* an fkine call that returned, on a robot whose base transform is set
ReturnedWithBase == FkineCall /\ ret.status = "ok" /\ ret.arg.has_base

\* C17: fkine applies the robot's base transform to the result if and only if
\* start is the tree base link, with fast=False and with fast=True
\* (include_base left at its default).
C17_BaseIffStartIsBase ==
    ReturnedWithBase => (BaseApplied <=> ret.start = robot.base)

\* it is so with fast=False
C17_SlowBaseIffStartIsBase ==
    (ReturnedWithBase /\ ~ret.arg.fast) => (BaseApplied <=> ret.start = robot.base)

\* with fast=True the base transform is applied whatever start is
C17_FastBaseAlways ==
    (ReturnedWithBase /\ ret.arg.fast) => BaseApplied

\* the links that were degenerate in the last fkine call
Degenerate == ret.arg.deg

NotDegenerate(x) == ~(x.f = "A" /\ x.id \in Degenerate)

\* the last fkine call as it goes when every link evaluates to a matrix
Plain ==
    fkine(pool, robot, EmptyDict, EmptyDict, NoLimits, [ret.arg EXCEPT !.deg = {}])

\* the call returned the product of the transforms of the other links
SkipsDegenerate ==
    Plain.status = "ok" =>
        ret.status = "ok" /\ ret.T = SelectSeq(Plain.T, NotDegenerate)

\* C18: a degenerate link is skipped by fkine without changing the result: for
\* any position of such a link on the path, including the end link with no
\* tool transform given, fkine returns the product of the remaining links'
\* transforms and does not fail.
C18_DegenerateSkipped ==
    FkineCall => SkipsDegenerate

\* it is so when the end link is not degenerate, and when a tool is given
C18_SkippedAboveEnd ==
    (FkineCall /\ ret.end # NoLink /\ (ret.end \notin Degenerate \/ ret.arg.tool))
        => SkipsDegenerate

\* a call skipped a degenerate link above the end link
C18_WitnessSkipped ==
    /\ FkineCall /\ ~ret.arg.fast /\ ret.status = "ok"
    /\ \E i \in 1..Len(Plain.T) : ~NotDegenerate(Plain.T[i])

-----------------------------------------------------------------------------
(* hessian0.                                                               *)

HessCall == ret.op = "hessian0"
Joints == 1..Len(J0)

\* C19: hessian0 returns a tensor symmetric in its two trailing joint indices:
\* for all i, j and all six rows H[:, i, j] = H[:, j, i], the translational
\* block (rows 0-2) and the rotational block (rows 3-5) both mirrored.
C19_Symmetric ==
    HessCall => \A i, j \in Joints : ret.H[i][j] = ret.H[j][i]

\* C19: the translational rows are symmetric, H[:3, i, j] = H[:3, j, i]; the
\* rotational rows are not mirrored: H[3:, i, j] is J0[3:, j] x J0[3:, i]
\* for i >= j and zero for i < j.
C19_TranslationalSymmetric ==
    HessCall =>
        \A i, j \in Joints :
            /\ Upper(ret.H[i][j]) = Upper(ret.H[j][i])
            /\ i >= j => Lower(ret.H[i][j]) = cross(Lower(J0[j]), Lower(J0[i]))
            /\ i < j => Lower(ret.H[i][j]) = <<0, 0, 0>>

\* a tensor with a nonzero translational entry off the diagonal and a
\* nonzero rotational entry below it
C19_Witness ==
    /\ HessCall
    /\ \E i, j \in Joints :
          /\ i > j
          /\ Upper(ret.H[j][i]) # <<0, 0, 0>>
          /\ Lower(ret.H[i][j]) # <<0, 0, 0>>

\* the last call was hessian0 on a robot, given q or given J0
HessianGiven(given) == mode = "path" /\ ret.op = "hessian0" /\ ret.given = given

\* jacob0 with the q, end and start of the last call, and get_path with its
\* end and start
JacobFor ==
    jacob0(pool, robot, EmptyDict, EmptyDict, NoLimits,
           ret.arg_end, ret.arg_start, ret.size, JacobDefaults)
PathOfCall ==
    get_path(pool, robot, EmptyDict, EmptyDict, NoLimits,
             ret.arg_end, ret.arg_start, FALSE)

\* the call returned a tensor of 6 x n x n, n the joint count of the path
ReturnedTensor ==
    ret.status = "ok" /\ ret.shape = <<6, PathOfCall.val.n, PathOfCall.val.n>>

\* given q, hessian0 returns the tensor whenever jacob0 succeeds
QAccepted ==
    (HessianGiven("q") /\ JacobFor.status = "ok") => ReturnedTensor

\* given J0, hessian0 returns the tensor when J0 is 6 x n and fails with a
\* validation error when it is not
J0Validated ==
    (HessianGiven("J0") /\ PathOfCall.status = "ok") =>
        IF ret.size = PathOfCall.val.n THEN ReturnedTensor
        ELSE ret.status = "error" /\ ret.err = "ValueError: incorrect matrix dimensions"

\* C20: given only q, hessian0 derives the Jacobian for the same start and end
\* and returns a 6 x n x n tensor (n the joint count of the path) for every
\* (start, end) for which jacob0 with that q succeeds, paths of a branched
\* robot with fewer joints than the robot included; a supplied J0 whose shape
\* is not 6 x n fails with a validation error.
C20_AcceptsQOrJ0 == QAccepted /\ J0Validated

\* the part about a supplied J0 is so
C20_J0Validated == J0Validated

\* given q, it is so on the paths that hold every joint of the robot
C20_QOnFullPaths ==
    (HessianGiven("q") /\ JacobFor.status = "ok" /\ JacobFor.n = robot.n)
        => ReturnedTensor

\* given q, a path with fewer joints than the robot has always fails
C20_QOnShortPathsFails ==
    (HessianGiven("q") /\ PathOfCall.status = "ok" /\ PathOfCall.val.n < robot.n)
        => ret.status = "error"

\* hessian0 returned a tensor from q, and one from J0
C20_WitnessQ == HessianGiven("q") /\ ret.status = "ok" /\ ret.n > 0
C20_WitnessJ0 == HessianGiven("J0") /\ ret.status = "ok" /\ ret.n > 0 /\ ret.n < robot.n

-----------------------------------------------------------------------------
(* jacob0.                                                                 *)

JacobCall == mode = "path" /\ ret.op = "jacob0"

\* the last jacob0 call named an analytical representation that is not one of
\* the four supported
Unsupported ==
    JacobCall /\ ret.opts.analytical \notin Representations \cup {None}

\* C21: jacob0 called with an analytical representation name other than
\* 'rpy-xyz', 'rpy-zyx', 'eul' or 'exp' fails with an invalid-argument error,
\* for every value of half and with fast or not.
C21_UnsupportedFails ==
    Unsupported => ret.status = "error"

\* it is so with fast=False and half other than 'trans', where a call that
\* resolves its path fails with the error of line 1465
C21_SlowFullFails ==
    (Unsupported /\ ~ret.opts.fast /\ ret.opts.half # "trans"
                 /\ PathOfCall.status = "ok") =>
        ret.status = "error" /\ ret.err = "ValueError: bad order specified"

\* with fast=True, and with half='trans', the name is never looked at
C21_NameIgnored ==
    (Unsupported /\ (ret.opts.fast \/ ret.opts.half = "trans")
                 /\ PathOfCall.status = "ok") => ret.status = "ok"

\* the last jacob0 call computed its columns in Python and returned
SlowJacobian == JacobCall /\ ~ret.opts.fast /\ ret.status = "ok"

\* it did so over a path of links of the robot's main collection
SlowJacobianOnMain ==
    SlowJacobian /\ Range(PathOfCall.val.path) \subseteq Range(robot.links)

\* the base transform is a factor of the transform T the call derived from fkine
BaseInTarget == \E i \in 1..Len(ret.T) : ret.T[i] = BaseA

\* C30: when jacob0 (fast=False) is called without a precomputed T, the target
\* transform it derives from fkine is the start-to-end transform without the
\* robot's base transform, also when start is the tree base link and a base
\* transform is set.
C30_TargetWithoutBase ==
    SlowJacobian => ~BaseInTarget

\* the base transform is in the target exactly when it is set and start is
\* the tree base link
C30_BaseInTargetIffStartIsBase ==
    SlowJacobian => (BaseInTarget <=> (ret.opts.has_base /\ ret.start = robot.base))

\* the place of link l in the sequence path
PlaceIn(path, l) == CHOOSE i \in 1..Len(path) : path[i] = l

\* one column for every joint link of the resolved path, none for any other
\* link, in the order of the path
ColumnsFollowPath ==
    /\ Range(ret.cols) = JointsIn(pool, Range(PathOfCall.val.path))
    /\ \A i, j \in 1..Len(ret.cols) :
          i < j => PlaceIn(PathOfCall.val.path, ret.cols[i])
                       < PlaceIn(PathOfCall.val.path, ret.cols[j])

\* the columns are in strictly ascending order of joint index
ColumnsAscend ==
    \A i, j \in 1..Len(ret.cols) :
        i < j => pool[ret.cols[i]].jindex < pool[ret.cols[j]].jindex

\* every joint link of S has a greater joint index than the joint links among
\* its ancestors
ParentFirst(p, S) ==
    \A l \in JointsIn(p, S) :
        \A m \in JointsIn(p, AncSelf(p, S, l)) : m # l => p[m].jindex < p[l].jindex

\* C25: jacob0 (fast=False) produces exactly one column per joint link on the
\* resolved path and none for non-joint links, in path traversal order, and
\* when start is the tree base link this order is strictly ascending joint
\* index, for every tree the builder accepts.
C25_ColumnsPerJointAscending ==
    SlowJacobianOnMain =>
        /\ ColumnsFollowPath
        /\ ret.start = robot.base => ColumnsAscend

\* one column per joint link of the path, in path order: so it is
C25_ColumnsFollowPath ==
    SlowJacobian => ColumnsFollowPath

\* the columns ascend on the trees whose joint indices follow the parents
C25_AscendOnOrderedTrees ==
    (SlowJacobianOnMain /\ ParentFirst(pool, Range(robot.links))) => ColumnsAscend

\* a slow jacob0 from the base over a path with a non-joint link between joints
C25_Witness ==
    /\ SlowJacobianOnMain /\ ret.start = robot.base
    /\ Len(ret.cols) > 1 /\ Len(ret.cols) < Len(PathOfCall.val.path)

-----------------------------------------------------------------------------
(* The joint-limit table.                                                  *)

\* column k of qlim holds the limits of the joint link whose joint index is k
QlimByIndex ==
    \A k \in 0..(robot.n - 1) :
        /\ robot.qlim[k + 1] \in JointsIn(pool, Main)
        /\ pool[robot.qlim[k + 1]].jindex = k

\* C29: after successful construction, column k of qlim holds the limits of
\* the joint link whose joint index is k, for every k in 0..n-1, for
\* auto-assigned and for explicitly supplied (validated) joint indices.
C29_QlimByJointIndex ==
    Constructed => QlimByIndex

\* it is so for auto-assigned indices when the main collection is a tree
C29_AutoQlimByJointIndex ==
    (Constructed /\ AutoIndexed /\ IsTree(pool, Main, robot.base)) => QlimByIndex

\* the same statement for the trees whose explicit indices were validated
\* only; these are the robots on which it fails
C29_ExplicitQlimByJointIndex ==
    (Constructed /\ ~AutoIndexed /\ ret.chk /\ IsTree(pool, Main, robot.base))
        => QlimByIndex

-----------------------------------------------------------------------------
(* The shape of the constructed tree.                                      *)

\* the links reached from the links of todo by children references
RECURSIVE Down(_, _, _)
Down(p, todo, seen) ==
    IF todo \subseteq seen THEN seen
    ELSE Down(p, UNION {Range(p[l].children) : l \in todo \ seen}, seen \cup todo)

ReachedByChildren(p, base) == IF base = NoLink THEN {} ELSE Down(p, {base}, {})

\* the links of S hang below the base link: every one is reached from the
\* base by children references, and its parent references lead to the base
\* without leaving S
RootedAt(p, S, base) ==
    \A l \in S : l \in ReachedByChildren(p, base) /\ base \in AncSelf(p, S, l)

SingleRootedTree == RootedAt(pool, Main, robot.base)

\* C27: after every successful construction the links form a single rooted
\* tree: every link of the robot's link collection is reachable from the base
\* link by following children references, and following parent references
\* from any link reaches the base link in finitely many steps (no cycle, no
\* parent outside the collection).
C27_SingleRootedTree ==
    Constructed => SingleRootedTree

\* with auto-assigned indices the links that were ordered, which are those
\* that received an index or a place in the end-effector list, form such a tree
C27_OrderedLinksFormTree ==
    (Constructed /\ AutoIndexed) =>
        RootedAt(pool, Range(robot.orlinks), robot.base)

-----------------------------------------------------------------------------
(* Children lists.                                                         *)

\* the children list of l holds exactly the links whose parent is l, each once
ChildrenExact(p, l) ==
    /\ Range(p[l].children) = {m \in DOMAIN p : ParentId(p, m) = l}
    /\ \A i, j \in 1..Len(p[l].children) : i # j => p[l].children[i] # p[l].children[j]

\* C28: after any sequence of construction attempts on the same link objects
\* (a failed attempt followed by a retry, or two robots built from the same
\* list), each link's children list contains exactly the links whose parent
\* is that link, each exactly once.
C28_ChildrenExact ==
    robot.status # "none" => \A l \in DOMAIN pool : ChildrenExact(pool, l)

\* after a first construction that succeeds it is so
C28_FirstConstructionExact ==
    (Constructed /\ calls = 0) => \A l \in DOMAIN pool : ChildrenExact(pool, l)

\* no child is ever missing from the list of its parent after a construction
\* that succeeds
C28_NoChildMissing ==
    Constructed =>
        \A l \in Range(ret.links) :
            ParentId(pool, l) # NoLink => l \in Range(pool[ParentId(pool, l)].children)

-----------------------------------------------------------------------------
(* BaseERobot.ets: the elementary transform sequence from one link to      *)
(* another, found by a depth-first search over children and parent.        *)

\* the value of a path: None, or a product of link ETSs and inverted link ETSs
NoETS == [none |-> TRUE, ets |-> <<>>]
ETSOf(l) == [none |-> FALSE, ets |-> <<[f |-> "ets", l |-> l]>>]
ETSInv(l) == [none |-> FALSE, ets |-> <<[f |-> "inv", l |-> l]>>]

\* path * other
Mul(path, other) == [none |-> FALSE, ets |-> path.ets \o other.ets]

\* what one call leaves behind: its return value, the shared explored set and
\* the links the calls were made on, in order
EtsOut(err, path, explored, visits) ==
    [err |-> err, p |-> path, explored |-> explored, visits |-> visits]

\* lines 509-513: start and end resolved anew by every call; the default
\* self.ee_links[0] is evaluated whether or not end was given
EtsEnds(r, start, end) ==
    LET link == getlink(r, start, IF r.base = NoLink THEN NoneP ELSE RefP(r.base))
    IN  IF link.err # "" THEN [err |-> link.err, link |-> NoLink, end |-> NoLink]
        ELSE IF end.kind = "none" /\ Len(r.ee) > 1
        THEN [err |-> "ValueError: ambiguous", link |-> NoLink, end |-> NoLink]
        ELSE IF Len(r.ee) = 0
        THEN [err |-> "IndexError", link |-> NoLink, end |-> NoLink]
        ELSE LET e == getlink(r, end, RefP(r.ee[1]))
             IN  IF e.err # "" THEN [err |-> e.err, link |-> NoLink, end |-> NoLink]
                 ELSE [err |-> "", link |-> link.val, end |-> e.val]

RECURSIVE ets(_, _, _, _, _, _, _)
RECURSIVE ets_children(_, _, _, _, _, _, _, _)

\* lines 509-548: robot.ets(start, end, explored, path); explored = None is
\* the empty set, and visits records the calls for the properties
ets(p, r, start, end, explored, path, visits) ==
    Only({ IF a.err # "" THEN EtsOut(a.err, NoETS, explored, visits)
           ELSE LET toplevel == path.none
                    seen == explored \cup {a.link}
                    been == Append(visits, a.link)
                IN  IF a.link = a.end THEN EtsOut("", path, seen, been)
                    ELSE Only({
                      IF c.err # "" \/ ~c.p.none THEN c
                      ELSE IF p[a.link].parent.kind = "ref"
                              /\ p[a.link].parent.id \notin c.explored
                      THEN ets(p, r, p[a.link].parent, RefP(a.end), c.explored,
                               IF toplevel THEN ETSInv(a.link)
                               ELSE Mul(path, ETSInv(a.link)),
                               c.visits)
                      ELSE EtsOut("", NoETS, c.explored, c.visits)
                      : c \in {ets_children(p, r, p[a.link].children, a.end,
                                            seen,
                                            IF toplevel THEN ETSOf(a.link) ELSE path,
                                            been, a.link)} })
         : a \in {EtsEnds(r, start, end)} })

\* lines 526-530: the loop over link.children
ets_children(p, r, kids, end, explored, path, visits, link) ==
    IF kids = <<>> THEN EtsOut("", NoETS, explored, visits)
    ELSE IF Head(kids) \in explored
    THEN ets_children(p, r, Tail(kids), end, explored, path, visits, link)
    ELSE Only({ IF c.err # "" \/ ~c.p.none THEN c
                ELSE ets_children(p, r, Tail(kids), end, c.explored, path,
                                  c.visits, link)
              : c \in {ets(p, r, RefP(Head(kids)), RefP(end), explored,
                           Mul(path, ETSOf(Head(kids))), visits)} })

\* the start and end arguments tried: nothing, any link object, the name of
\* the last link
EtsArgs == {NoneP} \cup {RefP(l) : l \in DOMAIN pool} \cup {StrP(pool[Len(pool)].name)}

\* robot.ets(start=start, end=end) on the constructed robot
Ets ==
    /\ robot.status = "ok"
    /\ calls < MaxCalls
    /\ \E start \in EtsArgs, end \in EtsArgs :
          \E k \in {ets(pool, robot, start, end, {}, NoETS, <<>>)} :
              ret' = [op |-> "ets", status |-> IF k.err = "" THEN "ok" ELSE "error",
                      err |-> k.err, p |-> k.p, explored |-> k.explored,
                      visits |-> k.visits, arg_start |-> start, arg_end |-> end]
    /\ calls' = calls + 1
    /\ UNCHANGED <<pool, robot, cache, cache_fknm, cache_end, mode, thr, J0>>

NextEts == Construct \/ Ets

SpecEts == InitPath /\ [][NextEts]_vars

-----------------------------------------------------------------------------
(* partial_fkine0: the partial derivative of order n of the forward        *)
(* kinematics.  The call is followed up to its while loop, and then one    *)
(* iteration of that loop at a time; thr holds the frame of the call.      *)

MaxOrder == 4

\* lines 1537-1548: the limit links, the path, J and H; an array is kept as its
\* order and its shape
partial_fkine0_arrays(p, r, c, cf, lim, end, start, qlen) ==
    Only({ IF ll.err # ""
           THEN ArrayOut("error", ll.err, 0, [end |-> ll.end, start |-> ll.start,
                             cache |-> c, cache_fknm |-> cf, lim |-> ll.lim])
           ELSE Only({ IF g.status # "ok" THEN ArrayOut(g.status, g.err, 0, g)
             ELSE Only({ IF j.status # "ok" THEN ArrayOut(j.status, j.err, 0, j)
               ELSE Only({ IF h.status # "ok" THEN h
                           ELSE [h EXCEPT !.n = g.val.n,
                                          !.shape = <<[order |-> 1, shape |-> j.shape],
                                                      [order |-> 2, shape |-> h.shape \o <<h.n>>]>>]
                         : h \in {hessian0(p, r, j.cache, j.cache_fknm, j.lim,
                                           RefP(ll.end), RefP(ll.start), "J0",
                                           j.shape[2])} })
               : j \in {jacob0(p, r, g.cache, g.cache_fknm, g.lim,
                               RefP(ll.end), RefP(ll.start), qlen, JacobDefaults)} })
             : g \in {get_path(p, r, c, cf, ll.lim,
                               RefP(ll.end), RefP(ll.start), FALSE)} })
         : ll \in {get_limit_links(r, lim, end, start)} })

\* lines 1574-1591: every pair of pdi twice, the first copy with its first
\* entry raised by one and the second with its second
add_pdi(pdi) ==
    [i \in 1..(2 * Len(pdi)) |->
        IF i % 2 = 1 THEN <<pdi[(i + 1) \div 2][1] + 1, pdi[(i + 1) \div 2][2]>>
        ELSE <<pdi[(i + 1) \div 2][1], pdi[(i + 1) \div 2][2] + 1>>]

\* robot.partial_fkine0(q, n, end=end, start=start), up to the while loop
PartialFkine0 ==
    /\ robot.status = "ok"
    /\ ret.op = "init"
    /\ thr = NoThreads
    /\ \E end \in EndArgs, start \in StartArgs, size \in Sizes, n \in 1..MaxOrder :
       \E a \in {partial_fkine0_arrays(pool, robot, cache, cache_fknm, cache_end,
                                       end, start, size)} :
          /\ cache' = a.cache
          /\ cache_fknm' = a.cache_fknm
          /\ cache_end' = a.lim
          /\ IF a.status # "ok"
             THEN /\ ret' = [op |-> "partial_fkine0", status |-> a.status,
                             err |-> a.err, n |-> n, d |-> <<>>]
                  /\ thr' = NoThreads
             ELSE /\ thr' = [pc |-> "while", n |-> n, nl |-> a.n, d |-> a.shape,
                             size |-> <<6, a.n, a.n>>, c |-> 2, pdi |-> << <<0, 0>> >>]
                  /\ ret' = ret
    /\ calls' = calls + 1
    /\ UNCHANGED <<pool, robot, mode, J0>>

\* lines 1599-1640: the test of the while loop, then one iteration of it or
\* the return of d[-1]; an iteration reads d[pdi[j][0]] and d[pdi[j][1]]
\* (lines 1617-1618), which raises when d has no such place
PartialWhile ==
    /\ thr # NoThreads
    /\ thr.pc = "while"
    /\ IF Len(thr.d) = thr.n
       THEN /\ ret' = [op |-> "partial_fkine0", status |-> "ok", err |-> "",
                       n |-> thr.n, d |-> thr.d]
            /\ thr' = NoThreads
       ELSE /\ Len(thr.d) <= MaxOrder
            /\ IF \E k \in 1..(2 * Len(thr.pdi)) :
                     \E e \in {1, 2} : add_pdi(thr.pdi)[k][e] >= Len(thr.d)
               THEN /\ ret' = [op |-> "partial_fkine0", status |-> "error",
                               err |-> "IndexError", n |-> thr.n, d |-> thr.d]
                    /\ thr' = NoThreads
               ELSE /\ thr' = [thr EXCEPT
                                 !.size = Append(@, thr.nl),
                                 !.pdi = add_pdi(@),
                                 !.c = @ + 1,
                                 !.d = Append(@, [order |-> thr.c + 1,
                                                  shape |-> Append(thr.size, thr.nl)])]
                    /\ ret' = ret
    /\ UNCHANGED <<pool, robot, cache, cache_fknm, cache_end, calls, mode, J0>>

NextPartial == Construct \/ PartialFkine0 \/ PartialWhile

SpecPartial == InitPath /\ [][NextPartial]_vars

(***************************************************************************)
(* rne: one generalised force per joint.                                   *)
(***************************************************************************)
RneReturned == ret.op = "rne"

ForcePerJoint ==
    \A k \in 0..(robot.n - 1) :
        /\ ret.times[k] = 1
        /\ ret.Q[k] # NoLink
        /\ pool[ret.Q[k]].jindex = k

ListedByIndex ==
    /\ Length(robot) = robot.n
    /\ \A k \in 0..(robot.n - 1) : pool[Item(robot, k)].jindex = k

\* the robot holds every link of the pool, as one tree with at least one joint
OnWholeTree ==
    /\ robot.n > 0
    /\ Main = DOMAIN pool
    /\ SingleRootedTree

\* C22: on every constructed tree with n joints, links without a joint
\* included, rne completes without an index error and assigns Q[j] exactly
\* once for every j in 0..n-1, from the link whose joint index is j.
C22_OneForcePerJoint ==
    (RneReturned /\ OnWholeTree) => ret.status = "ok" /\ ForcePerJoint

\* The part that holds: when the ordered list consists of the n joints,
\* the j-th of them having joint index j, rne completes and every Q[j] is
\* assigned once from that link.
C22_OneForcePerListedJoint ==
    (RneReturned /\ ListedByIndex) => ret.status = "ok" /\ ForcePerJoint

\* A robot whose ordered list is longer than its joint count never gets
\* through the initialising loop.
C22_MoreLinksThanJointsRaises ==
    (RneReturned /\ Length(robot) > robot.n) =>
        ret.status = "error" /\ ret.err = "IndexError"

(***************************************************************************)
(* rne: the order of the two passes against the tree.                      *)
(***************************************************************************)
InPass(pc) == thr # NoThreads /\ thr.pc = pc

\* the link the running pass is about to treat, when it has one with a parent
\* carrying a joint index inside the arrays
AtChild ==
    /\ thr.j \in 0..(robot.n - 1)
    /\ thr.j < Length(robot)
    /\ pool[Item(robot, thr.j)].parent.kind = "ref"
    /\ ParentIndex(thr.j) \in 0..(robot.n - 1)

\* the forward pass reads v[jp], a[jp] only after it has computed them
ForwardAfterParent ==
    (InPass("forward") /\ AtChild) => ParentIndex(thr.j) \in thr.v

\* the backward pass adds to f[jp] only while Q[jp] is still to be read
BackwardBeforeParent ==
    (InPass("backward") /\ AtChild) => thr.times[ParentIndex(thr.j)] = 0

\* C24: the joint-index order is consistent with parent-before-child order
\* for every accepted tree, so that the forward pass of rne computes v[j],
\* a[j] after its parent's and the backward pass reads Q[j] only after every
\* child has added its force to f[j].
C24_PassesFollowTree ==
    /\ robot.status = "ok" => ParentFirst(pool, Main)
    /\ ForwardAfterParent
    /\ BackwardBeforeParent

\* The part that holds: on a robot whose joint indices were assigned by the
\* constructor, every parent joint has the smaller index and both passes
\* meet every parent on the right side of its children.
C24_AutoIndexedPassesFollowTree ==
    (InPass("init") \/ InPass("forward") \/ InPass("backward")) /\ AutoIndexed =>
        /\ ParentFirst(pool, Main)
        /\ ForwardAfterParent
        /\ BackwardBeforeParent

\* The passes alone, whatever the constructor accepted: every parent is met
\* on the right side of its children.
C24_PassesMeetParentsInOrder ==
    ForwardAfterParent /\ BackwardBeforeParent

(***************************************************************************)
(* ets between two links of one tree.                                      *)
(***************************************************************************)
\* robot.ets(start=l1, end=l2) with two link objects returned
EtsBetweenLinks ==
    /\ ret.op = "ets"
    /\ ret.status = "ok"
    /\ ret.arg_start.kind = "ref"
    /\ ret.arg_end.kind = "ref"

ExploredOnce ==
    \A i, k \in DOMAIN ret.visits : ret.visits[i] = ret.visits[k] => i = k

\* C23: robot.ets(start=l1, end=l2) returns an elementary transform sequence,
\* never None, for every pair of links of the same tree, l1 = l2 and links on
\* different branches included; the search terminates and explores each link
\* at most once.
C23_EtsNeverNone ==
    (EtsBetweenLinks /\ OnWholeTree) => ~ret.p.none /\ ExploredOnce

\* The part that holds: two different links of the tree are always joined by
\* a sequence, and no call explores a link twice.
C23_DistinctLinksJoined ==
    /\ (EtsBetweenLinks /\ OnWholeTree /\ ret.arg_start.id # ret.arg_end.id) =>
           ~ret.p.none
    /\ ret.op = "ets" => ExploredOnce

\* From a link to itself the call returns None, having explored that link only.
C23_SameLinkReturnsNone ==
    (EtsBetweenLinks /\ ret.arg_start.id = ret.arg_end.id) =>
        ret.p.none /\ ret.visits = <<ret.arg_start.id>>

(***************************************************************************)
(* partial_fkine0: termination and the results of order 1 and 2.           *)
(***************************************************************************)
PartialReturned == ret.op = "partial_fkine0" /\ ret.status = "ok"

\* d[-1]
Last(d) == d[Len(d)]

\* the loop can still meet its exit test len(d) = n: d only grows
ExitAhead == InPass("while") => Len(thr.d) <= thr.n

\* C26: partial_fkine0(q, n) returns after finitely many steps for every
\* order n >= 1; its result for order 1 is the Jacobian jacob0(q) and for
\* order 2 the Hessian hessian0(q).
C26_ReturnsEveryOrder ==
    /\ ExitAhead
    /\ PartialReturned => Last(ret.d).order = ret.n

\* The part that holds: for every order n >= 2 the loop stops after n - 2
\* iterations and the result is the array of order n, with n trailing
\* dimensions; for n = 2 it is H as hessian0 returned it.
C26_ReturnsFromOrderTwo ==
    /\ (InPass("while") /\ thr.n >= 2) => Len(thr.d) <= thr.n
    /\ PartialReturned =>
          /\ Last(ret.d).order = ret.n
          /\ Len(Last(ret.d).shape) = ret.n + 1
          /\ Len(ret.d) = ret.n

\* No call of order 1 returns: d starts as [J, H] and the loop only appends.
C26_OrderOneNeverReturns ==
    /\ PartialReturned => ret.n # 1
    /\ (InPass("while") /\ thr.n = 1) => Len(thr.d) > thr.n

=============================================================================
